---------------------------- MODULE Spec2Model ----------------------------
(***************************************************************************)
(* Model of three programs of the repository:                              *)
(*   scripts/detect_drift.py: the drift evaluator's command line pipeline  *)
(*     (parse, load, select features, KS pass, PSI pass, retrain decision, *)
(*     report, save, exit) and its pure decision function;                 *)
(*   src/compare_metrics.py: main(), which compares the metric of a newly  *)
(*     trained model with the best registered one and writes improved.txt; *)
(*   src/score.py: the scoring service (init, health, readiness, liveness, *)
(*     run) and its module globals.                                        *)
(*                                                                         *)
(* Floats are fixed-point integers in thousandths (0.05 is 50, 15.0 % is   *)
(* 15000).  The results of library numerics that the script only passes    *)
(* on (scipy's ks_2samp p-value, the value of the histogram/log sum in     *)
(* calculate_psi) are drawn from small sets of representative values.      *)
(***************************************************************************)
EXTENDS Integers, Sequences, FiniteSets, TLC

VARIABLES
    pc,                 \* position of main(), or of the caller of a pure function
    args,               \* argparse result: [valid, features]
    fs,                 \* file system: [baseline, production, output_writable, output]
    baseline_df,        \* loaded DataFrame, a function column name -> column
    production_df,
    features,           \* list of feature names analysed
    ks_results,         \* dict of KS entries, in insertion order
    psi_results,        \* dict of PSI entries, in insertion order
    should_retrain_flag,
    retrain_reason,
    report,
    log,                \* section banners written by logger.info, in order
    exit_code,          \* process exit status, NoExit while running
    error,              \* exception that ended the run, "" if none
    MODEL,              \* score.py: the loaded model object, PyNone before init()
    INIT_TIME,          \* score.py: "None", or "time" once init() has started
    REQUEST_COUNT,      \* score.py: requests received by run()
    ERROR_COUNT,        \* score.py: requests run() answered with an error
    response,           \* what the last call returned: a function of the
                        \* score.py service, or a function called on its own
    registry            \* compare_metrics.py: the Azure ML model registry

\* the module globals of score.py and the last response
score_vars == <<MODEL, INIT_TIME, REQUEST_COUNT, ERROR_COUNT, response>>

\* the locals of detect_drift.main after the arguments
drift_vars == <<baseline_df, production_df, features, ks_results, psi_results,
                should_retrain_flag, retrain_reason, report>>

vars == <<pc, args, fs, baseline_df, production_df, features, ks_results,
          psi_results, should_retrain_flag, retrain_reason, report, log,
          exit_code, error, MODEL, INIT_TIME, REQUEST_COUNT, ERROR_COUNT,
          response, registry>>

----------------------------------------------------------------------------
(* Bounds of the model *)

\* number of feature names in the datasets of the pipeline specification
MaxFeatures == 2

\* number of entries in the result sets handed to should_retrain directly
MaxEntries == 3

----------------------------------------------------------------------------
(* Values *)

NameSeq == <<"f1", "f2", "f3", "f4", "f5">>

Names == {NameSeq[i] : i \in 1..MaxFeatures}

\* fixed-point: a float x is the integer x * Scale
Scale == 10 * 10 * 10

\* a float that is not a number (numpy's 0/0)
NaN == 0 - Scale * Scale * Scale

\* cells of a column: a number, a missing value (pandas NaN), or text
Num(v) == [kind |-> "num", v |-> v]
NA == [kind |-> "nan", v |-> 0]
TXT == [kind |-> "str", v |-> 0]

\* exit_code while the process is running
NoExit == 0 - 1

\* float comparisons: every comparison with NaN is False
FLt(a, b) == a # NaN /\ b # NaN /\ a < b
FGt(a, b) == a # NaN /\ b # NaN /\ a > b

Abs(x) == IF x < 0 THEN -x ELSE x

RECURSIVE SumCells(_)
SumCells(s) == IF s = <<>> THEN 0 ELSE Head(s).v + SumCells(Tail(s))

\* pandas Series.dropna()
dropna(column) == SelectSeq(column, LAMBDA c : c.kind # "nan")

\* a column read from CSV has a numeric dtype unless some cell holds text
is_numeric(column) == \A i \in 1..Len(column) : column[i].kind # "str"

\* pandas Series.mean() of a non-empty numeric series
mean(values) == (SumCells(values) * Scale) \div Len(values)

\* a DataFrame is [nrows, columns], columns a function name -> column
columns_of(df) == DOMAIN df.columns

EmptyFrame == [nrows |-> 0, columns |-> <<>>]

----------------------------------------------------------------------------
(* Program constants *)

\* --threshold default, 0.05
DefaultThreshold == 50

\* PSI below 0.1 is no_drift
PsiModerate == 100

\* PSI from 0.25 is significant_drift; drift_detected compares with it too
PsiSignificant == 250

\* should_retrain's default min_drifted_features
DefaultMinDrifted == 3

\* should_retrain's default high_drift_threshold, 15.0 percent
DefaultHighDrift == 15000

----------------------------------------------------------------------------
(* load_data *)

\* outcome of a call: a returned value or a raised exception
Return(v) == [raised |-> FALSE, exc |-> "", value |-> v]
Raise(e) == [raised |-> TRUE, exc |-> e, value |-> <<>>]

\* pd.read_csv of one file: raises on a file pandas cannot parse
read_csv(file) == IF file.parsable THEN Return(file.frame) ELSE Raise("ParserError")

RECURSIVE NAs(_)
NAs(n) == IF n = 0 THEN <<>> ELSE <<NA>> \o NAs(n - 1)

\* pd.concat(dfs, ignore_index=True): rows appended, union of the columns,
\* cells of a column a frame lacks are missing
RECURSIVE concat(_)
concat(dfs) ==
    IF Len(dfs) = 1 THEN Head(dfs)
    ELSE LET h == Head(dfs)
             t == concat(Tail(dfs))
             col(df, c) == IF c \in columns_of(df) THEN df.columns[c] ELSE NAs(df.nrows)
         IN [nrows |-> h.nrows + t.nrows,
             columns |-> [c \in columns_of(h) \cup columns_of(t) |-> col(h, c) \o col(t, c)]]

\* the loop over csv_files: the first read_csv that raises ends it
RECURSIVE read_all(_, _)
read_all(files, dfs) ==
    IF files = <<>> THEN Return(dfs)
    ELSE LET r == read_csv(Head(files))
         IN IF r.raised THEN r ELSE read_all(Tail(files), Append(dfs, r.value))

\* load_data that returns an empty frame for a directory without CSV files
load_data_empty_dir(path) ==
    IF path.kind = "file" THEN read_csv(path.files[1])
    ELSE IF path.kind = "dir" THEN
        IF path.files = <<>> THEN Return(EmptyFrame)
        ELSE LET r == read_all(path.files, <<>>)
             IN IF r.raised THEN r ELSE Return(concat(r.value))
    ELSE Raise("ValueError")

\* load_data(data_path): path is the file system's entry for data_path,
\* [kind: "file" | "dir" | "none", files: the file, or the directory's *.csv files]
load_data(path) ==
    IF path.kind = "file" THEN read_csv(path.files[1])
    ELSE IF path.kind = "dir" THEN
        IF path.files = <<>> THEN Raise("ValueError")
        ELSE LET r == read_all(path.files, <<>>)
             IN IF r.raised THEN r ELSE Return(concat(r.value))
    ELSE Raise("ValueError")

----------------------------------------------------------------------------
(* result dicts: sequences of entries keyed by their feature field, in     *)
(* insertion order                                                         *)

keys(d) == {d[i].feature : i \in 1..Len(d)}

\* d[key] = entry: replaces the entry of an existing key in place
dict_set(d, entry) ==
    IF entry.feature \in keys(d)
    THEN [i \in 1..Len(d) |-> IF d[i].feature = entry.feature THEN entry ELSE d[i]]
    ELSE Append(d, entry)

\* a Python or numpy boolean: json can only serialise the former
PyBool(b) == [type |-> "bool", value |-> b]
NumpyBool(b) == [type |-> "numpy.bool_", value |-> b]

----------------------------------------------------------------------------
(* detect_drift_ks_test *)

\* scipy.stats.ks_2samp's p-value: 1.0 for identical samples, otherwise the
\* library's result, drawn by the caller
ks_2samp(baseline_values, production_values, lib_p) ==
    IF baseline_values = production_values THEN Scale ELSE lib_p

\* the skip taken only when both series are empty
ks_skip_both_empty(baseline_values, production_values) ==
    Len(baseline_values) = 0 /\ Len(production_values) = 0

\* line 79: a feature with no valid values in either dataset is skipped
ks_skip_empty(baseline_values, production_values) ==
    Len(baseline_values) = 0 \/ Len(production_values) = 0

\* the comparison with <= in place of <
ks_drift_detected_le(p_value, threshold) ==
    p_value # NaN /\ threshold # NaN /\ p_value <= threshold

\* line 86: drift_detected = p_value < threshold
ks_drift_detected(p_value, threshold) == FLt(p_value, threshold)

\* the shift without the guard on a zero baseline mean: numpy's division
\* by zero gives inf or nan, no exception
mean_shift_percent_unguarded(baseline_mean, production_mean) ==
    IF baseline_mean # 0
    THEN ((production_mean - baseline_mean) * 100 * Scale) \div baseline_mean
    ELSE NaN

\* lines 91-93: the shift of the mean in percent of the baseline mean
mean_shift_percent_of(baseline_mean, production_mean) ==
    IF baseline_mean # 0
    THEN ((production_mean - baseline_mean) * 100 * Scale) \div baseline_mean
    ELSE 0

\* lines 83-107 for one feature: ks_2samp raises ValueError on an empty
\* sample, and ks_2samp and mean() raise TypeError on values that are text
ks_entry(feature, baseline_values, production_values, threshold, lib_p) ==
    IF Len(baseline_values) = 0 \/ Len(production_values) = 0
    THEN Raise("ValueError")
    ELSE IF ~is_numeric(baseline_values) \/ ~is_numeric(production_values)
    THEN Raise("TypeError")
    ELSE LET p_value == ks_2samp(baseline_values, production_values, lib_p)
             baseline_mean == mean(baseline_values)
             production_mean == mean(production_values)
         IN Return([feature |-> feature,
                    test |-> "KS-test",
                    \* p_value is a numpy float64, so the comparison is a numpy.bool_
                    drift_detected |-> NumpyBool(ks_drift_detected(p_value, threshold)),
                    p_value |-> p_value,
                    baseline_mean |-> baseline_mean,
                    production_mean |-> production_mean,
                    mean_shift_percent |->
                        mean_shift_percent_of(baseline_mean, production_mean),
                    baseline_samples |-> Len(baseline_values),
                    production_samples |-> Len(production_values)])

\* the loop of detect_drift_ks_test from position i of continuous_features;
\* lib_p[f] is the p-value scipy computes for feature f
RECURSIVE ks_loop(_, _, _, _, _, _, _)
ks_loop(baseline_data, production_data, continuous_features, threshold, lib_p, i, results) ==
    IF i > Len(continuous_features) THEN Return(results)
    ELSE LET feature == continuous_features[i]
             next(res) == ks_loop(baseline_data, production_data, continuous_features,
                                  threshold, lib_p, i + 1, res)
         IN IF feature \notin columns_of(baseline_data) \/ feature \notin columns_of(production_data)
            THEN next(results)
            ELSE LET baseline_values == dropna(baseline_data.columns[feature])
                     production_values == dropna(production_data.columns[feature])
                 IN IF ks_skip_empty(baseline_values, production_values)
                    THEN next(results)
                    ELSE LET e == ks_entry(feature, baseline_values, production_values,
                                           threshold, lib_p[feature])
                         IN IF e.raised THEN e ELSE next(dict_set(results, e.value))

detect_drift_ks_test(baseline_data, production_data, continuous_features, threshold, lib_p) ==
    ks_loop(baseline_data, production_data, continuous_features, threshold, lib_p, 1, <<>>)

----------------------------------------------------------------------------
(* calculate_psi, detect_drift_psi *)

\* calculate_psi: np.histogram raises TypeError on text; with an empty
\* series the counts are divided by a length of 0, giving nan without an
\* exception; identical samples have identical histograms, every term is
\* 0 * log(1); otherwise the value of the sum, drawn by the caller
calculate_psi(baseline_data, production_data, feature, lib_psi) ==
    LET baseline_values == dropna(baseline_data.columns[feature])
        production_values == dropna(production_data.columns[feature])
    IN IF ~is_numeric(baseline_values) \/ ~is_numeric(production_values)
       THEN Raise("TypeError")
       ELSE IF Len(baseline_values) = 0 \/ Len(production_values) = 0
       THEN Return(NaN)
       ELSE IF baseline_values = production_values
       THEN Return(0)
       ELSE Return(lib_psi)

\* lines 185-190
drift_level_of(psi) ==
    IF FLt(psi, PsiModerate) THEN "no_drift"
    ELSE IF FLt(psi, PsiSignificant) THEN "moderate_drift"
    ELSE "significant_drift"

\* line 196
psi_drift_detected(psi) == FGt(psi, PsiSignificant)

\* lines 192-197
psi_entry(feature, psi) ==
    [feature |-> feature,
     test |-> "PSI",
     psi_value |-> psi,
     drift_level |-> drift_level_of(psi),
     drift_detected |-> PyBool(psi_drift_detected(psi))]

\* the body of the loop without its try: the exception leaves the function
psi_try_uncaught(baseline_data, production_data, feature, lib_psi, results) ==
    LET r == calculate_psi(baseline_data, production_data, feature, lib_psi)
    IN IF r.raised THEN r
       ELSE Return(dict_set(results, psi_entry(feature, r.value)))

\* the try block of one feature: an exception of calculate_psi is caught
\* and the feature gets no entry
psi_try(baseline_data, production_data, feature, lib_psi, results) ==
    LET r == calculate_psi(baseline_data, production_data, feature, lib_psi)
    IN IF r.raised THEN Return(results)
       ELSE Return(dict_set(results, psi_entry(feature, r.value)))

RECURSIVE psi_loop(_, _, _, _, _, _)
psi_loop(baseline_data, production_data, feature_list, lib_psi, i, results) ==
    IF i > Len(feature_list) THEN Return(results)
    ELSE LET feature == feature_list[i]
             next(res) == psi_loop(baseline_data, production_data, feature_list,
                                   lib_psi, i + 1, res)
         IN IF feature \notin columns_of(baseline_data) \/ feature \notin columns_of(production_data)
            THEN next(results)
            ELSE LET r == psi_try(baseline_data, production_data, feature,
                                  lib_psi[feature], results)
                 IN IF r.raised THEN r ELSE next(r.value)

detect_drift_psi(baseline_data, production_data, feature_list, lib_psi) ==
    psi_loop(baseline_data, production_data, feature_list, lib_psi, 1, <<>>)

----------------------------------------------------------------------------
(* should_retrain *)

names_of(entries) == [i \in 1..Len(entries) |-> entries[i].feature]

high_drift_features_of(ks, high_drift_threshold) ==
    names_of(SelectSeq(ks, LAMBDA info :
        info.drift_detected.value /\ Abs(info.mean_shift_percent) > high_drift_threshold))

psi_significant_of(psi) ==
    names_of(SelectSeq(psi, LAMBDA info : info.drift_detected.value))

\* the reason string: its fixed text, the count and the joined names
Reason(text, names) == [text |-> text, count |-> Len(names), features |-> names]

NoDriftReason == Reason("No significant drift detected", <<>>)

\* should_retrain with the count compared by > instead of >=
should_retrain_count_gt(ks, psi, min_drifted_features, high_drift_threshold) ==
    LET high_drift_features == high_drift_features_of(ks, high_drift_threshold)
        psi_significant == psi_significant_of(psi)
    IN IF Len(high_drift_features) > min_drifted_features
       THEN [flag |-> TRUE, reason |-> Reason("High drift detected in", high_drift_features)]
       ELSE IF Len(psi_significant) > 0
       THEN [flag |-> TRUE, reason |-> Reason("Significant PSI drift in", psi_significant)]
       ELSE [flag |-> FALSE, reason |-> NoDriftReason]

should_retrain(ks, psi, min_drifted_features, high_drift_threshold) ==
    LET high_drift_features == high_drift_features_of(ks, high_drift_threshold)
        psi_significant == psi_significant_of(psi)
    IN IF Len(high_drift_features) >= min_drifted_features
       THEN [flag |-> TRUE, reason |-> Reason("High drift detected in", high_drift_features)]
       ELSE IF Len(psi_significant) > 0
       THEN [flag |-> TRUE, reason |-> Reason("Significant PSI drift in", psi_significant)]
       ELSE [flag |-> FALSE, reason |-> NoDriftReason]

----------------------------------------------------------------------------
(* generate_drift_report *)

NoReport == [generated |-> FALSE]

\* the percentage with 100 in place of 0 for an empty result set
drift_percentage_empty_100(drifted_features, total_features) ==
    IF total_features > 0
    THEN (drifted_features * 100 * Scale) \div total_features
    ELSE 100 * Scale

\* line 278
drift_percentage_of(drifted_features, total_features) ==
    IF total_features > 0
    THEN (drifted_features * 100 * Scale) \div total_features
    ELSE 0

\* the list with the monitoring entry appended whatever the count
recommendations_always_monitor(flag, drifted_features) ==
    <<[text |-> IF flag THEN "RETRAIN MODEL - Significant drift detected"
                        ELSE "No retraining needed - Model is stable",
       count |-> 0]>>
    \o <<[text |-> "Monitor features showing drift", count |-> drifted_features]>>

\* lines 289-298: the first entry follows the decision, the second one is
\* the f-string "Monitor {drifted_features} features showing drift"
recommendations_of(flag, drifted_features) ==
    <<[text |-> IF flag THEN "RETRAIN MODEL - Significant drift detected"
                        ELSE "No retraining needed - Model is stable",
       count |-> 0]>>
    \o (IF drifted_features > 0
        THEN <<[text |-> "Monitor features showing drift", count |-> drifted_features]>>
        ELSE <<>>)

generate_drift_report(ks, psi, flag, reason, baseline_samples, production_samples) ==
    LET total_features == Len(ks)
        drifted_features == Len(SelectSeq(ks, LAMBDA r : r.drift_detected.value))
    IN [generated |-> TRUE,
        summary |-> [total_features_analyzed |-> total_features,
                     features_with_drift |-> drifted_features,
                     drift_percentage |-> drift_percentage_of(drifted_features, total_features),
                     should_retrain |-> flag,
                     retrain_reason |-> reason,
                     baseline_samples |-> baseline_samples,
                     production_samples |-> production_samples],
        ks_test_results |-> ks,
        psi_results |-> psi,
        recommendations |-> recommendations_of(flag, drifted_features)]

----------------------------------------------------------------------------
(* json.dump *)

\* json's encoder has no case for numpy.bool_: it raises TypeError
json_serializable(rep) ==
    /\ \A i \in 1..Len(rep.ks_test_results) :
           rep.ks_test_results[i].drift_detected.type = "bool"
    /\ \A i \in 1..Len(rep.psi_results) :
           rep.psi_results[i].drift_detected.type = "bool"

NoFile == [state |-> "absent", content |-> NoReport]

----------------------------------------------------------------------------
(* Inputs of the pipeline *)

\* representative columns of two rows: all missing, text, and two numeric
\* columns whose means are 10 and 12
ColEmpty == <<NA, NA>>
ColText == <<TXT, NA>>
ColA == <<Num(10), Num(10)>>
ColB == <<Num(12), NA>>

\* the frames whose columns are any of the names, each drawn from cols
FramesOver(cols) ==
    UNION {{[nrows |-> 2, columns |-> f] : f \in [S -> cols]} : S \in SUBSET Names}

BaselineFrames == FramesOver({ColEmpty, ColText, ColA})
ProductionFrames == FramesOver({ColEmpty, ColA, ColB})

File(frame) == [parsable |-> TRUE, frame |-> frame]
BadFile == [parsable |-> FALSE, frame |-> EmptyFrame]

\* a directory of two CSV files, the second without column f2
TwoFiles ==
    <<File([nrows |-> 2, columns |-> [c \in Names |-> ColA]]),
      File([nrows |-> 2, columns |-> [c \in Names \ {"f2"} |-> ColB]])>>

FailingPaths ==
    {[kind |-> "none", files |-> <<>>],
     [kind |-> "dir", files |-> <<>>],
     [kind |-> "file", files |-> <<BadFile>>],
     [kind |-> "dir", files |-> <<File(EmptyFrame), BadFile>>]}

Paths(frames) ==
    FailingPaths
    \cup {[kind |-> "file", files |-> <<File(fr)>>] : fr \in frames}
    \cup {[kind |-> "dir", files |-> TwoFiles]}

\* --features: absent (the empty list), or the first k names
FeatureArgs == {SubSeq(NameSeq, 1, k) : k \in 0..MaxFeatures}

\* p-values scipy may return for differing samples: 0.01, and 0.05 itself
PValues == {10, DefaultThreshold}

\* values calculate_psi may return for differing samples: 0.05, 0.1, 0.25, 0.3
PsiValues == {50, PsiModerate, PsiSignificant, 300}

\* the library's results for the features whose two columns differ (for
\* identical columns no result is drawn: it is determined)
LibResults(values) ==
    LET compared == {f \in columns_of(baseline_df) \cap columns_of(production_df) :
                        baseline_df.columns[f] # production_df.columns[f]}
    IN {[f \in Names |-> IF f \in compared THEN g[f] ELSE 0] : g \in [compared -> values]}

\* the orders in which list(set) may enumerate a set
Orders(S) == {s \in [1..Cardinality(S) -> S] : \A i, j \in 1..Cardinality(S) : s[i] = s[j] => i = j}

\* str.lower() of a column name
lower(name) ==
    CASE name = "ID" -> "id"
      [] name = "Index" -> "index"
      [] name = "TimeStamp" -> "timestamp"
      [] OTHER -> name

ExcludedNames == {"id", "timestamp", "index"}

----------------------------------------------------------------------------
(* score.py as imported, and no registry *)

\* Python's None where a model object is expected
PyNone == [type |-> "NoneType", has_predict |-> FALSE, has_predict_proba |-> FALSE,
           callable |-> FALSE]

\* no request body (the calls other than run take none)
NoRequest ==
    [type |-> "", decoded |-> "", key |-> "", ndim |-> 0, large |-> FALSE,
     method |-> "", with_proba |-> FALSE, echo_input |-> FALSE]

\* a response also records the request it answers
NoResponse == [op |-> "none", code |-> 0, status |-> "", keys |-> {},
               request_id |-> 0 - 1, exc |-> "", calls |-> 0, warned |-> FALSE,
               request |-> NoRequest]

\* lines 18-28 of score.py: the globals after import
ModuleLoaded ==
    /\ MODEL = PyNone
    /\ INIT_TIME = "None"
    /\ REQUEST_COUNT = 0
    /\ ERROR_COUNT = 0
    /\ response = NoResponse

NoRegistry == [list_raises |-> FALSE, models |-> <<>>]

----------------------------------------------------------------------------
(* main *)

Init ==
    /\ pc = "start"
    /\ \/ /\ args \in {[valid |-> TRUE, features |-> fl, threshold |-> DefaultThreshold]
                         : fl \in FeatureArgs}
          /\ fs \in {[baseline |-> b, production |-> p, output |-> NoFile]
                       : b \in Paths(BaselineFrames), p \in Paths(ProductionFrames)}
       \/ /\ args = [valid |-> FALSE, features |-> <<>>, threshold |-> DefaultThreshold]
          /\ fs = [baseline |-> [kind |-> "none", files |-> <<>>],
                   production |-> [kind |-> "none", files |-> <<>>],
                   output |-> NoFile]
    /\ baseline_df = EmptyFrame
    /\ production_df = EmptyFrame
    /\ features = <<>>
    /\ ks_results = <<>>
    /\ psi_results = <<>>
    /\ should_retrain_flag = FALSE
    /\ retrain_reason = NoDriftReason
    /\ report = NoReport
    /\ log = <<>>
    /\ exit_code = NoExit
    /\ error = ""
    /\ ModuleLoaded
    /\ registry = NoRegistry

\* sys.exit(code)
Exit(code) ==
    /\ pc' = "exited"
    /\ exit_code' = code

\* an exception nothing catches: the interpreter prints the traceback and
\* exits with status 1
Uncaught(exc) ==
    /\ error' = exc
    /\ Exit(1)

\* parser.parse_args(): a usage error exits with status 2
ParseArgs ==
    /\ pc = "start"
    /\ UNCHANGED <<score_vars, registry>>
    /\ IF args.valid
       THEN /\ pc' = "load"
            /\ log' = Append(log, "DATA DRIFT DETECTION")
            /\ UNCHANGED exit_code
       ELSE /\ Exit(2)
            /\ UNCHANGED log
    /\ UNCHANGED <<args, fs, baseline_df, production_df, features, ks_results,
                   psi_results, should_retrain_flag, retrain_reason, report, error>>

\* lines 318-327: both loads in one try; any exception is logged and ends
\* the process with status 1
LoadData ==
    /\ pc = "load"
    /\ UNCHANGED <<score_vars, registry>>
    /\ LET b == load_data(fs.baseline)
           p == load_data(fs.production)
       IN IF b.raised
          THEN /\ Exit(1)
               /\ log' = Append(log, "Error loading data")
               /\ UNCHANGED <<baseline_df, production_df>>
          ELSE IF p.raised
          THEN /\ Exit(1)
               /\ log' = Append(log, "Error loading data")
               /\ baseline_df' = b.value
               /\ UNCHANGED production_df
          ELSE /\ pc' = "select"
               /\ baseline_df' = b.value
               /\ production_df' = p.value
               /\ UNCHANGED <<exit_code, log>>
    /\ UNCHANGED <<args, fs, features, ks_results, psi_results,
                   should_retrain_flag, retrain_reason, report, error>>

numeric_columns(df) == {c \in columns_of(df) : is_numeric(df.columns[c])}

\* the choice with the names compared as they are spelled
SelectFeaturesCaseSensitive ==
    /\ pc = "select"
    /\ UNCHANGED <<score_vars, registry>>
    /\ IF args.features # <<>>
       THEN features' = args.features
       ELSE LET common == numeric_columns(baseline_df) \cap numeric_columns(production_df)
            IN features' \in Orders({f \in common : f \notin ExcludedNames})
    /\ pc' = "ks"
    /\ UNCHANGED <<args, fs, baseline_df, production_df, ks_results, psi_results,
                   should_retrain_flag, retrain_reason, report, log, exit_code, error>>

\* lines 329-341: the supplied list, or the common numeric columns without
\* the identifier-like names, in the order list(set) happens to give
SelectFeatures ==
    /\ pc = "select"
    /\ UNCHANGED <<score_vars, registry>>
    /\ IF args.features # <<>>
       THEN features' = args.features
       ELSE LET common == numeric_columns(baseline_df) \cap numeric_columns(production_df)
            IN features' \in Orders({f \in common : lower(f) \notin ExcludedNames})
    /\ pc' = "ks"
    /\ UNCHANGED <<args, fs, baseline_df, production_df, ks_results, psi_results,
                   should_retrain_flag, retrain_reason, report, log, exit_code, error>>

\* lines 343-347
RunKS ==
    /\ pc = "ks"
    /\ UNCHANGED <<score_vars, registry>>
    /\ log' = Append(log, "KOLMOGOROV-SMIRNOV TEST")
    /\ \E lib_p \in LibResults(PValues) :
         LET r == detect_drift_ks_test(baseline_df, production_df, features,
                                       args.threshold, lib_p)
         IN IF r.raised
            THEN /\ Uncaught(r.exc)
                 /\ UNCHANGED ks_results
            ELSE /\ ks_results' = r.value
                 /\ pc' = "psi"
                 /\ UNCHANGED <<exit_code, error>>
    /\ UNCHANGED <<args, fs, baseline_df, production_df, features, psi_results,
                   should_retrain_flag, retrain_reason, report>>

\* lines 349-353
RunPSI ==
    /\ pc = "psi"
    /\ UNCHANGED <<score_vars, registry>>
    /\ log' = Append(log, "POPULATION STABILITY INDEX (PSI)")
    /\ \E lib_psi \in LibResults(PsiValues) :
         LET r == detect_drift_psi(baseline_df, production_df, features, lib_psi)
         IN IF r.raised
            THEN /\ Uncaught(r.exc)
                 /\ UNCHANGED psi_results
            ELSE /\ psi_results' = r.value
                 /\ pc' = "decide"
                 /\ UNCHANGED <<exit_code, error>>
    /\ UNCHANGED <<args, fs, baseline_df, production_df, features, ks_results,
                   should_retrain_flag, retrain_reason, report>>

\* lines 355-361
Decide ==
    /\ pc = "decide"
    /\ UNCHANGED <<score_vars, registry>>
    /\ log' = Append(log, "RETRAINING DECISION")
    /\ LET d == should_retrain(ks_results, psi_results, DefaultMinDrifted, DefaultHighDrift)
       IN /\ should_retrain_flag' = d.flag
          /\ retrain_reason' = d.reason
    /\ pc' = "report"
    /\ UNCHANGED <<args, fs, baseline_df, production_df, features, ks_results,
                   psi_results, report, exit_code, error>>

\* the report built with the no-drift decision whatever was decided
GenerateReportNoDecision ==
    /\ pc = "report"
    /\ UNCHANGED <<score_vars, registry>>
    /\ report' = generate_drift_report(ks_results, psi_results, FALSE,
                                       NoDriftReason, baseline_df.nrows, production_df.nrows)
    /\ pc' = "save"
    /\ UNCHANGED <<args, fs, baseline_df, production_df, features, ks_results,
                   psi_results, should_retrain_flag, retrain_reason, log, exit_code, error>>

\* lines 363-371
GenerateReport ==
    /\ pc = "report"
    /\ UNCHANGED <<score_vars, registry>>
    /\ report' = generate_drift_report(ks_results, psi_results, should_retrain_flag,
                                       retrain_reason, baseline_df.nrows, production_df.nrows)
    /\ pc' = "save"
    /\ UNCHANGED <<args, fs, baseline_df, production_df, features, ks_results,
                   psi_results, should_retrain_flag, retrain_reason, log, exit_code, error>>

\* lines 373-378: open() may fail (OSError); json.dump writes the text piece
\* by piece, so a TypeError leaves the part written before it in the file
SaveReport ==
    /\ pc = "save"
    /\ UNCHANGED <<score_vars, registry>>
    /\ \E writable \in BOOLEAN :
         IF ~writable
         THEN /\ Uncaught("OSError")
              /\ UNCHANGED <<fs, log>>
         ELSE IF ~json_serializable(report)
         THEN /\ fs' = [fs EXCEPT !.output = [state |-> "partial", content |-> NoReport]]
              /\ Uncaught("TypeError")
              /\ UNCHANGED log
         ELSE /\ fs' = [fs EXCEPT !.output = [state |-> "complete", content |-> report]]
              /\ log' = Append(log, "Drift report saved")
              /\ pc' = "summary"
              /\ UNCHANGED <<exit_code, error>>
    /\ UNCHANGED <<args, baseline_df, production_df, features, ks_results,
                   psi_results, should_retrain_flag, retrain_reason, report>>

\* lines 380-395
ExitMain ==
    /\ pc = "summary"
    /\ UNCHANGED <<score_vars, registry>>
    /\ log' = Append(log, "SUMMARY")
    /\ Exit(IF should_retrain_flag THEN 1 ELSE 0)
    /\ UNCHANGED <<args, fs, baseline_df, production_df, features, ks_results,
                   psi_results, should_retrain_flag, retrain_reason, report, error>>

Next ==
    \/ ParseArgs
    \/ LoadData
    \/ SelectFeatures
    \/ RunKS
    \/ RunPSI
    \/ Decide
    \/ GenerateReport
    \/ SaveReport
    \/ ExitMain

Spec == Init /\ [][Next]_vars

----------------------------------------------------------------------------
(* should_retrain called on its own, on result sets of any content *)

\* entries of the first k names, each name present or not
EntrySets(k, entries_of) ==
    LET RECURSIVE build(_)
        build(i) ==
            IF i > k THEN {<<>>}
            ELSE LET rest == build(i + 1)
                 IN rest \cup {<<e>> \o r : e \in entries_of[NameSeq[i]], r \in rest}
    IN build(1)

\* mean shifts of -20 %, exactly 15 %, and 20 %
ShiftValues == {0 - 20000, DefaultHighDrift, 20000}

AllNames == {NameSeq[i] : i \in 1..Len(NameSeq)}

KsEntries ==
    [f \in AllNames |->
        {[feature |-> f, test |-> "KS-test", drift_detected |-> NumpyBool(d),
          mean_shift_percent |-> m] : d \in BOOLEAN, m \in ShiftValues}]

PsiEntries ==
    [f \in AllNames |->
        {[feature |-> f, test |-> "PSI", drift_detected |-> PyBool(d)] : d \in BOOLEAN}]

InitRetrain ==
    /\ pc = "call"
    /\ ks_results \in EntrySets(MaxEntries, KsEntries)
    /\ psi_results \in EntrySets(MaxEntries, PsiEntries)
    /\ args = [valid |-> TRUE, features |-> <<>>, threshold |-> DefaultThreshold]
    /\ fs = [baseline |-> [kind |-> "none", files |-> <<>>],
             production |-> [kind |-> "none", files |-> <<>>],
             output |-> NoFile]
    /\ baseline_df = EmptyFrame
    /\ production_df = EmptyFrame
    /\ features = <<>>
    /\ should_retrain_flag = FALSE
    /\ retrain_reason = Reason("", <<>>)
    /\ report = NoReport
    /\ log = <<>>
    /\ exit_code = NoExit
    /\ error = ""
    /\ ModuleLoaded
    /\ registry = NoRegistry

\* should_retrain(ks_results, psi_results) with the default thresholds
CallShouldRetrain ==
    /\ pc = "call"
    /\ UNCHANGED <<score_vars, registry>>
    /\ LET d == should_retrain(ks_results, psi_results, DefaultMinDrifted, DefaultHighDrift)
       IN /\ should_retrain_flag' = d.flag
          /\ retrain_reason' = d.reason
    /\ pc' = "returned"
    /\ UNCHANGED <<args, fs, baseline_df, production_df, features, ks_results,
                   psi_results, report, log, exit_code, error>>

NextRetrain == CallShouldRetrain

SpecRetrain == InitRetrain /\ [][NextRetrain]_vars

----------------------------------------------------------------------------
(* The KS pass on its own, on columns whose means are zero, negative and   *)
(* positive                                                                *)

ColZero == <<Num(0), Num(0)>>
ColBalanced == <<Num(0 - 5), Num(5)>>
ColNeg == <<Num(0 - 4), NA>>

KSColumns == {ColZero, ColBalanced, ColNeg, ColA, ColB}

KSFrames == {[nrows |-> 2, columns |-> f] : f \in [Names -> KSColumns]}

\* main after the features are chosen: both frames hold every feature
InitKS ==
    /\ pc = "ks"
    /\ args = [valid |-> TRUE, features |-> <<>>, threshold |-> DefaultThreshold]
    /\ baseline_df \in KSFrames
    /\ production_df \in KSFrames
    /\ fs = [baseline |-> [kind |-> "file", files |-> <<File(baseline_df)>>],
             production |-> [kind |-> "file", files |-> <<File(production_df)>>],
             output |-> NoFile]
    /\ features = SubSeq(NameSeq, 1, MaxFeatures)
    /\ ks_results = <<>>
    /\ psi_results = <<>>
    /\ should_retrain_flag = FALSE
    /\ retrain_reason = NoDriftReason
    /\ report = NoReport
    /\ log = <<"DATA DRIFT DETECTION">>
    /\ exit_code = NoExit
    /\ error = ""
    /\ ModuleLoaded
    /\ registry = NoRegistry

NextKS == RunKS

SpecKS == InitKS /\ [][NextKS]_vars

----------------------------------------------------------------------------
(* The choice of features on its own, on frames with identifier-like       *)
(* column names                                                            *)

SelectNames == {"ID", "index", "TimeStamp", "age", "bmi"}

\* baseline frames: any of the names, numeric or text; production frames:
\* any of the names, numeric
SelectBaselineFrames ==
    UNION {{[nrows |-> 2, columns |-> f] : f \in [S -> {ColA, ColText}]}
              : S \in SUBSET SelectNames}

SelectProductionFrames ==
    {[nrows |-> 2, columns |-> [c \in S |-> ColB]] : S \in SUBSET SelectNames}

\* --features: absent, an identifier-like name, a name with one that is no
\* column of either frame
SelectFeatureArgs == {<<>>, <<"ID">>, <<"age", "f1">>}

\* main after both frames are loaded
InitSelect ==
    /\ pc = "select"
    /\ args \in {[valid |-> TRUE, features |-> fl, threshold |-> DefaultThreshold]
                    : fl \in SelectFeatureArgs}
    /\ baseline_df \in SelectBaselineFrames
    /\ production_df \in SelectProductionFrames
    /\ fs = [baseline |-> [kind |-> "file", files |-> <<File(baseline_df)>>],
             production |-> [kind |-> "file", files |-> <<File(production_df)>>],
             output |-> NoFile]
    /\ features = <<>>
    /\ ks_results = <<>>
    /\ psi_results = <<>>
    /\ should_retrain_flag = FALSE
    /\ retrain_reason = NoDriftReason
    /\ report = NoReport
    /\ log = <<"DATA DRIFT DETECTION">>
    /\ exit_code = NoExit
    /\ error = ""
    /\ ModuleLoaded
    /\ registry = NoRegistry

NextSelect == SelectFeatures

SpecSelect == InitSelect /\ [][NextSelect]_vars

----------------------------------------------------------------------------
(* should_retrain on result sets where the KS rule can hold while a        *)
(* PSI-significant feature is none of the high-drift features              *)

\* per name, the KS entry that counts as high drift (20 % shift)
KsHighEntries ==
    [f \in AllNames |->
        {[feature |-> f, test |-> "KS-test", drift_detected |-> NumpyBool(TRUE),
          mean_shift_percent |-> 20000]}]

InitReason ==
    /\ pc = "call"
    /\ ks_results \in EntrySets(MaxEntries + 1, KsHighEntries)
    /\ psi_results \in EntrySets(MaxEntries + 1, PsiEntries)
    /\ args = [valid |-> TRUE, features |-> <<>>, threshold |-> DefaultThreshold]
    /\ fs = [baseline |-> [kind |-> "none", files |-> <<>>],
             production |-> [kind |-> "none", files |-> <<>>],
             output |-> NoFile]
    /\ baseline_df = EmptyFrame
    /\ production_df = EmptyFrame
    /\ features = <<>>
    /\ should_retrain_flag = FALSE
    /\ retrain_reason = Reason("", <<>>)
    /\ report = NoReport
    /\ log = <<>>
    /\ exit_code = NoExit
    /\ error = ""
    /\ ModuleLoaded
    /\ registry = NoRegistry

NextReason == CallShouldRetrain

SpecReason == InitReason /\ [][NextReason]_vars

----------------------------------------------------------------------------
(* compare_metrics.py: values *)

\* number of model versions in the registry
MaxVersions == 2

\* JSON and Python values: None, a number, a string float() parses (to v),
\* a non-empty string that is no number, a non-empty list
JNone == [kind |-> "none", v |-> 0]
JNum(v) == [kind |-> "num", v |-> v]
JStr(v) == [kind |-> "str", v |-> v]
JText == [kind |-> "text", v |-> 0]
JList == [kind |-> "list", v |-> 0]

\* Python's truth value of such a value, as `or` uses it
truthy(x) ==
    CASE x.kind = "none" -> FALSE
      [] x.kind = "num" -> x.v # 0
      [] OTHER -> TRUE

\* Optional[float]
NoFloat == [some |-> FALSE, v |-> 0]
Float(v) == [some |-> TRUE, v |-> v]

\* lines 24-48
parse_float(value) ==
    CASE value.kind = "none" -> NoFloat
      [] value.kind = "num" -> Float(value.v)
      [] value.kind = "str" -> Float(value.v)
      [] OTHER -> NoFloat

\* the keys looked up in metrics.json, in tags and in properties
MetricKeys == {"accuracy", "f1", "f1_score"}

NoEntries == [k \in MetricKeys |-> JNone]
Only(key, value) == [k \in MetricKeys |-> IF k = key THEN value ELSE JNone]

\* str.lower() of a model name
name_lower(name) == IF name = "Model" THEN "model" ELSE name

----------------------------------------------------------------------------
(* get_best_existing_metric *)

\* lines 149-155: a tag value becomes None or its stripped str()
normalize_tag(v) ==
    CASE v.kind = "none" -> JNone
      [] v.kind = "num" -> JStr(v.v)
      [] v.kind = "list" -> JText
      [] OTHER -> v

\* the first of the values that is not None, None if there is none
first_not_none(values) ==
    LET found == SelectSeq(values, LAMBDA x : x.kind # "none")
    IN IF found = <<>> THEN JNone ELSE Head(found)

\* lines 157-163
tag_value(tags, metric_key) ==
    first_not_none(<<normalize_tag(tags[metric_key]), normalize_tag(tags["f1"]),
                     normalize_tag(tags["f1_score"])>>)

\* lines 181-186
property_value(properties, metric_key) ==
    first_not_none(<<properties[metric_key], properties["f1"], properties["f1_score"]>>)

is_better(val, best) == val.some /\ (~best.some \/ val.v > best.v)

\* lines 112-192 for one listed model m, best being the best so far
scan_model(m, model_name, metric_key, best) ==
    IF m.raises THEN best
    ELSE IF m.name = "" THEN best
    ELSE IF name_lower(m.name) # name_lower(model_name) THEN best
    ELSE LET val == parse_float(tag_value(m.tags, metric_key))
             pval == parse_float(property_value(m.properties, metric_key))
         IN IF is_better(val, best) THEN val
            ELSE IF is_better(pval, best) THEN pval
            ELSE best

RECURSIVE scan_models(_, _, _, _, _)
scan_models(models, i, model_name, metric_key, best) ==
    IF i > Len(models) THEN best
    ELSE scan_models(models, i + 1, model_name, metric_key,
                     scan_model(models[i], model_name, metric_key, best))

\* lines 95-198: an error while the listing is iterated gives None
get_best_existing_metric(ml_client, model_name, metric_key) ==
    IF ml_client.list_raises THEN NoFloat
    ELSE scan_models(ml_client.models, 1, model_name, metric_key, NoFloat)

----------------------------------------------------------------------------
(* compare_metrics.main *)

\* lines 201-210: the index of the first candidate that exists, 0 for None
find_metrics_file(candidates) ==
    IF candidates[1].exists THEN 1
    ELSE IF candidates[2].exists THEN 2
    ELSE 0

\* lines 239-246: json.load raises on text that is not JSON, .get raises
\* AttributeError on a document that is no object; `a or b or c` gives the
\* first true value, or c
new_val_of(file, primary_metric) ==
    IF file.json = "invalid" THEN Raise("JSONDecodeError")
    ELSE IF file.json # "dict" THEN Raise("AttributeError")
    ELSE LET metrics == file.dict
             a == metrics[primary_metric]
             b == metrics["f1"]
             c == metrics["f1_score"]
         IN Return(parse_float(IF truthy(a) THEN a ELSE IF truthy(b) THEN b ELSE c))

\* line 257: None and "" are false
identifiers_given(a) ==
    /\ a.subscription_id \notin {"None", ""}
    /\ a.resource_group \notin {"None", ""}
    /\ a.workspace \notin {"None", ""}

\* the comparison with >= in place of >
improved_of_ge(existing_best, new_val) ==
    IF ~existing_best.some THEN TRUE
    ELSE IF ~new_val.some THEN FALSE
    ELSE new_val.v >= existing_best.v

\* lines 292-297
improved_of(existing_best, new_val) ==
    IF ~existing_best.some THEN TRUE
    ELSE IF ~new_val.some THEN FALSE
    ELSE new_val.v > existing_best.v

\* "true" if improved else "false"
bool_text(b) == IF b THEN "true" ELSE "false"

\* parser.parse_args(): a usage error exits with status 2
CompareParseArgs ==
    /\ pc = "cm_start"
    /\ IF args.valid
       THEN pc' = "cm_find" /\ UNCHANGED exit_code
       ELSE pc' = "cm_exited" /\ exit_code' = 2
    /\ UNCHANGED <<args, fs, log, error, registry, drift_vars, score_vars>>

\* lines 232-237 without the write of improved.txt
FindMetricsNoWrite ==
    /\ pc = "cm_find"
    /\ IF find_metrics_file(fs.metrics) = 0
       THEN /\ log' = Append(log, "metrics.json not found in expected locations.")
            /\ pc' = "cm_returned"
            /\ exit_code' = 2
            /\ UNCHANGED fs
       ELSE /\ pc' = "cm_load"
            /\ UNCHANGED <<fs, log, exit_code>>
    /\ UNCHANGED <<args, error, registry, drift_vars, score_vars>>

\* lines 232-237
FindMetrics ==
    /\ pc = "cm_find"
    /\ IF find_metrics_file(fs.metrics) = 0
       THEN /\ fs' = [fs EXCEPT !.improved = "false"]
            /\ log' = Append(log, "metrics.json not found in expected locations.")
            /\ pc' = "cm_returned"
            /\ exit_code' = 2
       ELSE /\ pc' = "cm_load"
            /\ UNCHANGED <<fs, log, exit_code>>
    /\ UNCHANGED <<args, error, registry, drift_vars, score_vars>>

\* lines 239-255: nothing catches what json.load or metrics.get raise
LoadMetrics ==
    /\ pc = "cm_load"
    /\ LET r == new_val_of(fs.metrics[find_metrics_file(fs.metrics)], args.primary_metric)
       IN IF r.raised
          THEN /\ error' = r.exc
               /\ pc' = "cm_exited"
               /\ exit_code' = 1
               /\ UNCHANGED log
          ELSE /\ log' = Append(log, "New model metrics")
               /\ pc' = "cm_check"
               /\ UNCHANGED <<error, exit_code>>
    /\ UNCHANGED <<args, fs, registry, drift_vars, score_vars>>

\* lines 257-264
CheckWorkspace ==
    /\ pc = "cm_check"
    /\ IF ~identifiers_given(args)
       THEN /\ log' = Append(log, "subscription/resource_group/workspace must be provided")
            /\ fs' = [fs EXCEPT !.improved = "false"]
            /\ pc' = "cm_returned"
            /\ exit_code' = 3
       ELSE /\ pc' = "cm_compare"
            /\ UNCHANGED <<fs, log, exit_code>>
    /\ UNCHANGED <<args, error, registry, drift_vars, score_vars>>

\* lines 266-303
CompareMetrics ==
    /\ pc = "cm_compare"
    /\ LET new_val == new_val_of(fs.metrics[find_metrics_file(fs.metrics)],
                                 args.primary_metric).value
           existing_best == get_best_existing_metric(registry, args.model_name,
                                                     args.primary_metric)
           improved == improved_of(existing_best, new_val)
       IN fs' = [fs EXCEPT !.improved = bool_text(improved)]
    /\ log' = Append(log, "IMPROVED")
    /\ pc' = "cm_returned"
    /\ exit_code' = 0
    /\ UNCHANGED <<args, error, registry, drift_vars, score_vars>>

NextCompare ==
    \/ CompareParseArgs
    \/ FindMetrics
    \/ LoadMetrics
    \/ CheckWorkspace
    \/ CompareMetrics

----------------------------------------------------------------------------
(* Inputs of compare_metrics.main *)

MetricsFile(kind, dict) == [exists |-> TRUE, json |-> kind, dict |-> dict]
NoMetricsFile == [exists |-> FALSE, json |-> "none", dict |-> NoEntries]

\* metrics.json documents: accuracy 0.8; accuracy 0 next to f1 0.9; f1_score
\* "0.95" as a string; a metric that is a text; no metric at all
MetricsDicts ==
    {Only("accuracy", JNum(800)),
     [Only("f1", JNum(900)) EXCEPT !["accuracy"] = JNum(0)],
     Only("f1_score", JStr(950)),
     Only("accuracy", JText),
     NoEntries}

\* the file at the first candidate location
FirstCandidates ==
    {NoMetricsFile, MetricsFile("invalid", NoEntries), MetricsFile("list", NoEntries)}
    \cup {MetricsFile("dict", d) : d \in MetricsDicts}

\* the file at named-outputs/model/metrics.json
SecondCandidates == {NoMetricsFile, MetricsFile("dict", Only("accuracy", JNum(800)))}

Version(name, tags, properties) ==
    [name |-> name, tags |-> tags, properties |-> properties, raises |-> FALSE]

\* registered versions: metric in a tag (as text, under another spelling of
\* the name, of another model), in a property only, in both, and a version
\* whose attributes raise
RegistryVersions ==
    {Version("model", Only("accuracy", JStr(800)), NoEntries),
     Version("Model", Only("f1", JStr(900)), NoEntries),
     Version("other", Only("accuracy", JStr(990)), NoEntries),
     Version("model", Only("accuracy", JText), Only("accuracy", JNum(850))),
     Version("model", Only("accuracy", JStr(700)), Only("accuracy", JNum(950))),
     [Version("model", Only("accuracy", JStr(990)), NoEntries) EXCEPT !.raises = TRUE]}

RECURSIVE Listings(_)
Listings(n) ==
    IF n = 0 THEN {<<>>}
    ELSE LET shorter == Listings(n - 1)
         IN shorter \cup {Append(l, v) : l \in shorter, v \in RegistryVersions}

Registries ==
    {[list_raises |-> FALSE, models |-> l] : l \in Listings(MaxVersions)}
    \cup {[list_raises |-> TRUE, models |-> <<>>]}

\* the workspace identifiers: all given, one left to an unset environment
\* variable, one given as an empty string
IdentifierArgs ==
    {<<"sub", "rg", "ws">>, <<"None", "rg", "ws">>, <<"sub", "", "ws">>, <<"sub", "rg", "None">>}

CompareArgs ==
    {[valid |-> TRUE, model_name |-> "model", primary_metric |-> pm,
      subscription_id |-> id[1], resource_group |-> id[2], workspace |-> id[3]]
        : pm \in {"accuracy", "f1"}, id \in IdentifierArgs}
    \cup {[valid |-> FALSE, model_name |-> "", primary_metric |-> "f1",
           subscription_id |-> "None", resource_group |-> "None", workspace |-> "None"]}

\* improved.txt may be left over from an earlier run
InitCompare ==
    /\ pc = "cm_start"
    /\ args \in CompareArgs
    /\ fs \in {[metrics |-> <<a, b>>, improved |-> i]
                 : a \in FirstCandidates, b \in SecondCandidates, i \in {"absent", "true"}}
    /\ registry \in Registries
    /\ log = <<>>
    /\ exit_code = NoExit
    /\ error = ""
    /\ baseline_df = EmptyFrame
    /\ production_df = EmptyFrame
    /\ features = <<>>
    /\ ks_results = <<>>
    /\ psi_results = <<>>
    /\ should_retrain_flag = FALSE
    /\ retrain_reason = NoDriftReason
    /\ report = NoReport
    /\ ModuleLoaded

SpecCompare == InitCompare /\ [][NextCompare]_vars

----------------------------------------------------------------------------
(* score.py: init *)

\* number of requests the service receives
MaxRequests == 2

\* what joblib.load may return: a model with predict and predict_proba, one
\* with predict only, a plain callable
ModelObject(type, has_predict, has_predict_proba, callable) ==
    [type |-> type, has_predict |-> has_predict,
     has_predict_proba |-> has_predict_proba, callable |-> callable]

Classifier == ModelObject("classifier", TRUE, TRUE, FALSE)
Regressor == ModelObject("regressor", TRUE, FALSE, FALSE)
Function == ModelObject("function", FALSE, FALSE, TRUE)

NoModelFile == [exists |-> FALSE, loads |-> FALSE, object |-> PyNone]
CorruptFile == [exists |-> TRUE, loads |-> FALSE, object |-> PyNone]
Pickle(object) == [exists |-> TRUE, loads |-> TRUE, object |-> object]

\* lines 34-50: the exception of joblib.load is logged and raised again
_load_model_from_path(file) ==
    IF file.loads THEN Return(file.object) ELSE Raise("UnpicklingError")

\* lines 63-101: the first candidate path that exists, else the first file
\* of the working directory with a model extension, else FileNotFoundError
find_and_load(files) ==
    IF files.candidate.exists THEN _load_model_from_path(files.candidate)
    ELSE IF files.autodetect.exists THEN _load_model_from_path(files.autodetect)
    ELSE Raise("FileNotFoundError")

\* init(), called once when the container starts; its exception is raised
\* again to the caller after it is logged
CallInit ==
    /\ pc = "imported"
    /\ pc' = "initialized"
    /\ INIT_TIME' = "time"
    /\ LET r == find_and_load(fs)
       IN IF r.raised
          THEN /\ error' = r.exc
               /\ response' = [NoResponse EXCEPT !.op = "init", !.exc = r.exc]
               /\ log' = log \o <<"Initializing model service", "Exception in init()">>
               /\ UNCHANGED MODEL
          ELSE /\ MODEL' = r.value
               /\ response' = [NoResponse EXCEPT !.op = "init"]
               /\ log' = log \o <<"Initializing model service",
                                   "Model initialization completed successfully">>
               /\ UNCHANGED error
    /\ UNCHANGED <<args, fs, exit_code, REQUEST_COUNT, ERROR_COUNT, registry, drift_vars>>

----------------------------------------------------------------------------
(* score.py: health, readiness, liveness *)

HealthyKeys ==
    {"status", "model_loaded", "model_name", "model_version", "deployment",
     "uptime_seconds", "total_requests", "error_count", "error_rate_percent", "timestamp"}

UnhealthyKeys == {"status", "reason", "model_name", "model_version"}

\* health() deciding by INIT_TIME in place of MODEL
health_by_init_time(model, init_time) ==
    IF init_time = "None"
    THEN [NoResponse EXCEPT !.op = "health", !.code = 503, !.status = "unhealthy",
                            !.keys = UnhealthyKeys]
    ELSE [NoResponse EXCEPT !.op = "health", !.code = 200, !.status = "healthy",
                            !.keys = HealthyKeys]

\* lines 209-246: the arithmetic of the healthy branch is guarded (INIT_TIME
\* unset, REQUEST_COUNT 0), so the except branch is not reached
health(model, init_time) ==
    IF model = PyNone
    THEN [NoResponse EXCEPT !.op = "health", !.code = 503, !.status = "unhealthy",
                            !.keys = UnhealthyKeys]
    ELSE [NoResponse EXCEPT !.op = "health", !.code = 200, !.status = "healthy",
                            !.keys = HealthyKeys]

\* lines 256-263
liveness(model) ==
    [NoResponse EXCEPT !.op = "liveness", !.code = 200, !.status = "alive",
                       !.keys = {"status", "ready"}]

CallHealth ==
    /\ response' = health(MODEL, INIT_TIME)
    /\ UNCHANGED <<pc, args, fs, log, exit_code, error, MODEL, INIT_TIME,
                   REQUEST_COUNT, ERROR_COUNT, registry, drift_vars>>

\* lines 249-253: readiness() returns health()
CallReadiness ==
    /\ response' = [health(MODEL, INIT_TIME) EXCEPT !.op = "readiness"]
    /\ UNCHANGED <<pc, args, fs, log, exit_code, error, MODEL, INIT_TIME,
                   REQUEST_COUNT, ERROR_COUNT, registry, drift_vars>>

CallLiveness ==
    /\ response' = liveness(MODEL)
    /\ UNCHANGED <<pc, args, fs, log, exit_code, error, MODEL, INIT_TIME,
                   REQUEST_COUNT, ERROR_COUNT, registry, drift_vars>>

----------------------------------------------------------------------------
(* score.py: run *)

\* a request body: its Python type, what json.loads makes of it if it is a
\* str (otherwise its own type), the key of a dict that holds the rows, the
\* shape of the rows, and the optional entries of a dict
Body(type, decoded, key, ndim, large, method, with_proba, echo_input) ==
    [type |-> type, decoded |-> decoded, key |-> key, ndim |-> ndim, large |-> large,
     method |-> method, with_proba |-> with_proba, echo_input |-> echo_input]

InputKeys == {"input_data", "instances", "data", "inputs"}

Array(ndim, large) == [ndim |-> ndim, large |-> large]

\* lines 125-172: "features" stands for a dict of scalar values by feature
\* name, any other key for a dict with a value that is itself a dict
_parse_request(data) ==
    IF data.type = "None" THEN Raise("ValueError")
    ELSE IF data.decoded = "invalid" THEN Raise("JSONDecodeError")
    ELSE IF data.decoded = "dict"
    THEN IF data.key \in InputKeys THEN Return(Array(data.ndim, data.large))
         ELSE IF data.key = "features" THEN Return(Array(2, FALSE))
         ELSE Raise("ValueError")
    ELSE IF data.decoded = "list"
    THEN IF data.ndim > 2 THEN Raise("ValueError")
         ELSE IF data.large THEN Raise("ValueError")
         ELSE Return(Array(data.ndim, data.large))
    ELSE Raise("ValueError")

\* what lines 296-314 leave behind
Predicted(prediction, probabilities, calls, warned) ==
    [raised |-> FALSE, prediction |-> prediction, probabilities |-> probabilities,
     calls |-> calls, warned |-> warned]

ModelRaised(calls) ==
    [raised |-> TRUE, prediction |-> FALSE, probabilities |-> FALSE,
     calls |-> calls, warned |-> TRUE]

\* lines 296-314: behaves says which calls of the model succeed on these
\* inputs.  An exception of the inner try is logged as a warning, and
\* predict is then called (again) if the model has it; a model without
\* predict has nothing to fall back on
invoke_model(model, request_body, behaves) ==
    LET is_dict == request_body.type = "dict"
        handler(calls) ==
            IF model.has_predict
            THEN IF behaves.predict THEN Predicted(TRUE, FALSE, calls + 1, TRUE)
                                    ELSE ModelRaised(calls + 1)
            ELSE Predicted(FALSE, FALSE, calls, TRUE)
    IN IF is_dict /\ request_body.method = "predict_proba" /\ model.has_predict_proba
       THEN IF behaves.predict_proba THEN Predicted(FALSE, TRUE, 1, FALSE)
                                     ELSE handler(1)
       ELSE LET with_proba == is_dict /\ request_body.with_proba /\ model.has_predict_proba
                before == IF with_proba THEN 1 ELSE 0
            IN IF with_proba /\ ~behaves.predict_proba THEN handler(1)
               ELSE IF model.has_predict
               THEN IF behaves.predict THEN Predicted(TRUE, with_proba, before + 1, FALSE)
                                       ELSE handler(before + 1)
               ELSE IF model.callable
               THEN IF behaves.predict THEN Predicted(TRUE, with_proba, before + 1, FALSE)
                                       ELSE handler(before + 1)
               ELSE handler(before)

\* lines 342-357
ErrorResult(request_id, exc, calls, warned) ==
    [op |-> "run", code |-> 0, status |-> "", keys |-> {"error", "trace", "metadata"},
     request_id |-> request_id, exc |-> exc, calls |-> calls, warned |-> warned,
     request |-> NoRequest]

\* lines 266-357; request_count is REQUEST_COUNT when the call begins
run(request_body, model, request_count, behaves) ==
    LET request_id == request_count
        inputs == _parse_request(request_body)
        r == invoke_model(model, request_body, behaves)
    IN IF model = PyNone THEN ErrorResult(request_id, "RuntimeError", 0, FALSE)
       ELSE IF inputs.raised THEN ErrorResult(request_id, inputs.exc, 0, FALSE)
       ELSE IF r.raised THEN ErrorResult(request_id, "ModelError", r.calls, r.warned)
       \* line 335: len(prediction) of a prediction that has no length
       ELSE IF r.prediction /\ ~behaves.sized
       THEN ErrorResult(request_id, "TypeError", r.calls, r.warned)
       ELSE [op |-> "run", code |-> 0, status |-> "",
             keys |-> {"metadata"}
                      \cup (IF r.prediction THEN {"predictions"} ELSE {})
                      \cup (IF r.probabilities THEN {"probabilities"} ELSE {})
                      \cup (IF request_body.type = "dict" /\ request_body.echo_input
                            THEN {"input"} ELSE {}),
             request_id |-> request_id, exc |-> "", calls |-> r.calls, warned |-> r.warned,
             request |-> NoRequest]

\* request bodies: None, a number, text that is no JSON, JSON text of a list
\* and of a dict, lists of one to three dimensions and an oversized one,
\* dicts under each input key, by feature name, and of an unknown layout
Bodies ==
    {Body("None", "None", "", 0, FALSE, "", FALSE, FALSE),
     Body("int", "int", "", 0, FALSE, "", FALSE, FALSE),
     Body("str", "invalid", "", 0, FALSE, "", FALSE, FALSE),
     Body("str", "list", "", 2, FALSE, "", FALSE, FALSE),
     Body("str", "dict", "data", 2, FALSE, "predict_proba", FALSE, FALSE),
     Body("list", "list", "", 1, FALSE, "", FALSE, FALSE),
     Body("list", "list", "", 2, FALSE, "", FALSE, FALSE),
     Body("list", "list", "", 3, FALSE, "", FALSE, FALSE),
     Body("list", "list", "", 2, TRUE, "", FALSE, FALSE),
     Body("dict", "dict", "input_data", 2, FALSE, "", FALSE, FALSE),
     Body("dict", "dict", "instances", 3, FALSE, "", FALSE, FALSE),
     Body("dict", "dict", "data", 2, FALSE, "predict_proba", FALSE, FALSE),
     Body("dict", "dict", "inputs", 2, FALSE, "", TRUE, TRUE),
     Body("dict", "dict", "features", 2, FALSE, "", FALSE, FALSE),
     Body("dict", "dict", "nested", 2, FALSE, "", FALSE, FALSE)}

\* which calls of the model succeed, and whether its prediction has a length
Behaviours == [predict : BOOLEAN, predict_proba : BOOLEAN, sized : BOOLEAN]

\* run() with ERROR_COUNT incremented on every request
CallRunCountsAll ==
    /\ REQUEST_COUNT < MaxRequests
    /\ \E request_body \in Bodies, behaves \in Behaviours :
         LET result == run(request_body, MODEL, REQUEST_COUNT, behaves)
         IN /\ response' = [result EXCEPT !.request = request_body]
            /\ ERROR_COUNT' = ERROR_COUNT + 1
            /\ log' = Append(log, IF "error" \in result.keys THEN "Request failed"
                                                              ELSE "Request completed")
    /\ REQUEST_COUNT' = REQUEST_COUNT + 1
    /\ UNCHANGED <<pc, args, fs, exit_code, error, MODEL, INIT_TIME, registry, drift_vars>>

\* run(request_body): lines 276 and 343 count, lines 338 and 345 log the
\* request as completed or failed
CallRun ==
    /\ REQUEST_COUNT < MaxRequests
    /\ \E request_body \in Bodies, behaves \in Behaviours :
         LET result == run(request_body, MODEL, REQUEST_COUNT, behaves)
         IN /\ response' = [result EXCEPT !.request = request_body]
            /\ ERROR_COUNT' = IF "error" \in result.keys THEN ERROR_COUNT + 1 ELSE ERROR_COUNT
            /\ log' = Append(log, IF "error" \in result.keys THEN "Request failed"
                                                              ELSE "Request completed")
    /\ REQUEST_COUNT' = REQUEST_COUNT + 1
    /\ UNCHANGED <<pc, args, fs, exit_code, error, MODEL, INIT_TIME, registry, drift_vars>>

\* the model files of the container: at a candidate path, and the first one
\* with a model extension in the working directory
ScoreFiles ==
    {[candidate |-> c, autodetect |-> a]
        : c \in {NoModelFile, CorruptFile, Pickle(Classifier), Pickle(Function)},
          a \in {NoModelFile, CorruptFile, Pickle(Regressor)}}

InitScore ==
    /\ pc = "imported"
    /\ fs \in ScoreFiles
    /\ ModuleLoaded
    /\ args = [valid |-> TRUE]
    /\ registry = NoRegistry
    /\ log = <<>>
    /\ exit_code = NoExit
    /\ error = ""
    /\ baseline_df = EmptyFrame
    /\ production_df = EmptyFrame
    /\ features = <<>>
    /\ ks_results = <<>>
    /\ psi_results = <<>>
    /\ should_retrain_flag = FALSE
    /\ retrain_reason = NoDriftReason
    /\ report = NoReport

NextScore ==
    \/ CallInit
    \/ CallHealth
    \/ CallReadiness
    \/ CallLiveness
    \/ CallRun

SpecScore == InitScore /\ [][NextScore]_vars

----------------------------------------------------------------------------
(* get_best_existing_metric called on its own *)

InitBest ==
    /\ pc = "call"
    /\ registry \in Registries
    /\ args \in {[valid |-> TRUE, model_name |-> n, primary_metric |-> pm,
                   subscription_id |-> "sub", resource_group |-> "rg", workspace |-> "ws"]
                    : n \in {"model", "Model"}, pm \in {"accuracy", "f1"}}
    /\ fs = [metrics |-> <<NoMetricsFile, NoMetricsFile>>, improved |-> "absent"]
    /\ log = <<>>
    /\ exit_code = NoExit
    /\ error = ""
    /\ baseline_df = EmptyFrame
    /\ production_df = EmptyFrame
    /\ features = <<>>
    /\ ks_results = <<>>
    /\ psi_results = <<>>
    /\ should_retrain_flag = FALSE
    /\ retrain_reason = NoDriftReason
    /\ report = NoReport
    /\ ModuleLoaded

\* get_best_existing_metric(ml_client, model_name, metric_key); line 197
\* prints the result
CallGetBest ==
    /\ pc = "call"
    /\ pc' = "returned"
    /\ response' = [op |-> "get_best_existing_metric",
                    value |-> get_best_existing_metric(registry, args.model_name,
                                                       args.primary_metric)]
    /\ log' = IF registry.list_raises
              THEN Append(log, "Warning: failed to list or parse models")
              ELSE Append(log, "DEBUG: Best existing")
    /\ UNCHANGED <<args, fs, exit_code, error, MODEL, INIT_TIME, REQUEST_COUNT,
                   ERROR_COUNT, registry, drift_vars>>

NextBest == CallGetBest

SpecBest == InitBest /\ [][NextBest]_vars

----------------------------------------------------------------------------
(* src/model/train.py: get_csvs_df and train_model, each called on its own *)

\* a directory entry; dot: the name begins with "."
DirEntry(stem, ext, dot, rows, parses) ==
    [stem |-> stem, ext |-> ext, dot |-> dot, rows |-> rows, parses |-> parses]

Absent == [kind |-> "absent", files |-> {}]
RegularFile == [kind |-> "file", files |-> {}]
Directory(files) == [kind |-> "dir", files |-> files]

\* fnmatch of "*.csv" as glob applies it: case-sensitive, and a name that
\* begins with a dot is not matched by a pattern that does not
glob_match(f) == f.ext = ".csv" /\ ~f.dot

\* glob.glob(os.path.join(path, "*.csv")), line 89
glob_csv(entry) == {f \in entry.files : glob_match(f)}

RECURSIVE RowsOf(_)
RowsOf(S) == IF S = {} THEN 0
             ELSE LET f == CHOOSE x \in S : TRUE IN f.rows + RowsOf(S \ {f})

NonExistentPath == "RuntimeError: Cannot use non-existent path provided"
NoCsvFound == "RuntimeError: No CSV files found in provided data path"

NoTrainResponse == [op |-> "none", result |-> Return("None"), logged |-> <<>>]

\* lines 85-88 with the existence check left out
CheckPathSkipped ==
    /\ pc = "gc_call"
    /\ pc' = "gc_glob"
    /\ UNCHANGED <<args, fs, response, log, exit_code, error, MODEL, INIT_TIME,
                   REQUEST_COUNT, ERROR_COUNT, registry, drift_vars>>

\* lines 85-88
CheckPath ==
    /\ pc = "gc_call"
    /\ fs' = [fs EXCEPT !.calls = Append(@, "os.path.exists")]
    /\ IF fs.path.kind = "absent"
       THEN /\ response' = [op |-> "get_csvs_df", result |-> Raise(NonExistentPath),
                            logged |-> <<>>]
            /\ pc' = "returned"
       ELSE /\ pc' = "gc_glob"
            /\ UNCHANGED response
    /\ UNCHANGED <<args, log, exit_code, error, MODEL, INIT_TIME, REQUEST_COUNT,
                   ERROR_COUNT, registry, drift_vars>>

\* lines 89-93
GlobCsvs ==
    /\ pc = "gc_glob"
    /\ fs' = [fs EXCEPT !.calls = Append(@, "glob.glob")]
    /\ IF glob_csv(fs.path) = {}
       THEN /\ response' = [op |-> "get_csvs_df", result |-> Raise(NoCsvFound),
                            logged |-> <<>>]
            /\ pc' = "returned"
       ELSE /\ pc' = "gc_read"
            /\ UNCHANGED response
    /\ UNCHANGED <<args, log, exit_code, error, MODEL, INIT_TIME, REQUEST_COUNT,
                   ERROR_COUNT, registry, drift_vars>>

\* line 94: pd.read_csv raises on a file it cannot parse
ReadCsvs ==
    /\ pc = "gc_read"
    /\ pc' = "returned"
    /\ fs' = [fs EXCEPT !.calls = Append(@, "pd.read_csv")]
    /\ response' = [op |-> "get_csvs_df",
                    result |-> IF \E f \in glob_csv(fs.path) : ~f.parses
                               THEN Raise("EmptyDataError")
                               ELSE Return([nrows |-> RowsOf(glob_csv(fs.path)),
                                            columns |-> <<>>]),
                    logged |-> <<>>]
    /\ UNCHANGED <<args, log, exit_code, error, MODEL, INIT_TIME, REQUEST_COUNT,
                   ERROR_COUNT, registry, drift_vars>>

\* the caller passed no value for a parameter
NotPassed == "<not passed>"

MetricNames == <<"accuracy", "precision", "recall", "f1">>

\* lines 173-179: the calls of mlflow.log_metric made before one raises;
\* fails_at = 0 when none raises
log_metrics(values, fails_at) ==
    [i \in 1..(IF fails_at = 0 THEN Len(MetricNames) ELSE fails_at - 1) |->
        [name |-> MetricNames[i], value |-> values[i]]]

\* lines 138-207; values are what the four sklearn scores return, fails_at the
\* call of mlflow.log_metric that raises, makedirs_ok, dump_ok and write_ok
\* whether os.makedirs, joblib.dump and the write of metrics.json succeed
train_model(a, values, fails_at, makedirs_ok, dump_ok, write_ok) ==
    IF a.output_dir = NotPassed
    THEN [result |-> Raise("TypeError: missing 1 required positional argument: 'output_dir'"),
          logged |-> <<>>, out_dir |-> "", written |-> {}, messages |-> <<>>]
    ELSE IF a.reg_rate = 0
    THEN [result |-> Raise("ZeroDivisionError"), logged |-> <<>>, out_dir |-> "",
          written |-> {}, messages |-> <<"Training model with reg_rate">>]
    ELSE IF a.reg_rate < 0 \/ a.train_classes < 2
    THEN [result |-> Raise("ValueError"), logged |-> <<>>, out_dir |-> "",
          written |-> {}, messages |-> <<"Training model with reg_rate">>]
    ELSE LET out_dir == IF a.output_dir \in {"None", ""} THEN "outputs/model"
                        ELSE a.output_dir
             m1 == <<"Training model with reg_rate", "Metrics">>
             m2 == IF fails_at = 0 THEN m1 ELSE Append(m1, "MLflow logging failed")
         IN  IF ~makedirs_ok
             THEN [result |-> Raise("OSError"), logged |-> log_metrics(values, fails_at),
                   out_dir |-> out_dir, written |-> {}, messages |-> m2]
             ELSE [result |-> Return("None"), logged |-> log_metrics(values, fails_at),
                   out_dir |-> out_dir,
                   written |-> (IF dump_ok THEN {"model.pkl"} ELSE {})
                               \cup (IF write_ok THEN {"metrics.json"} ELSE {}),
                   messages |-> m2 \o (IF dump_ok THEN <<"Saved model">>
                                       ELSE <<"Failed to save model">>)
                                   \o (IF write_ok THEN <<"Saved metrics">>
                                       ELSE <<"Failed to save metrics">>)]

\* what accuracy_score, precision_score, recall_score and f1_score return
ScoreValues == {0, Scale \div 2, Scale}

CallTrainModel ==
    /\ pc = "tm_call"
    /\ pc' = "returned"
    /\ \E acc \in ScoreValues, prec \in ScoreValues, rec \in ScoreValues,
          fails_at \in 0..Len(MetricNames), makedirs_ok \in BOOLEAN,
          dump_ok \in BOOLEAN, write_ok \in BOOLEAN :
          LET f1 == IF prec + rec = 0 THEN 0 ELSE (2 * prec * rec) \div (prec + rec)
              r == train_model(args, <<acc, prec, rec, f1>>, fails_at,
                               makedirs_ok, dump_ok, write_ok)
          IN  /\ response' = [op |-> "train_model", result |-> r.result,
                              logged |-> r.logged]
              /\ fs' = [fs EXCEPT !.out = IF r.result.raised /\ r.result.exc # "OSError"
                                           THEN @
                                           ELSE [dir |-> r.out_dir, files |-> r.written]]
              /\ log' = log \o r.messages
    /\ UNCHANGED <<args, exit_code, error, MODEL, INIT_TIME, REQUEST_COUNT,
                   ERROR_COUNT, registry, drift_vars>>

TrainFiles == {DirEntry("a", ".csv", FALSE, 2, TRUE), DirEntry("b", ".csv", FALSE, 1, TRUE),
               DirEntry("empty", ".csv", FALSE, 0, FALSE), DirEntry("A", ".CSV", FALSE, 2, TRUE),
               DirEntry("", ".csv", TRUE, 2, TRUE), DirEntry("notes", ".txt", FALSE, 0, FALSE)}

TrainPaths == {Absent, RegularFile} \cup {Directory(S) : S \in SUBSET TrainFiles}

NoOutput == [dir |-> "", files |-> {}]

TrainModelArgs == [valid : {TRUE}, reg_rate : {0, Scale \div 20, 0 - Scale},
                   train_classes : {1, 2},
                   output_dir : {NotPassed, "None", "", "out"}]

InitTrain ==
    /\ \/ /\ pc = "gc_call"
          /\ args = [valid |-> TRUE]
          /\ fs \in {[path |-> p, calls |-> <<>>, out |-> NoOutput] : p \in TrainPaths}
       \/ /\ pc = "tm_call"
          /\ args \in TrainModelArgs
          /\ fs = [path |-> Absent, calls |-> <<>>, out |-> NoOutput]
    /\ log = <<>>
    /\ exit_code = NoExit
    /\ error = ""
    /\ baseline_df = EmptyFrame
    /\ production_df = EmptyFrame
    /\ features = <<>>
    /\ ks_results = <<>>
    /\ psi_results = <<>>
    /\ should_retrain_flag = FALSE
    /\ retrain_reason = NoDriftReason
    /\ report = NoReport
    /\ registry = NoRegistry
    /\ MODEL = PyNone
    /\ INIT_TIME = "None"
    /\ REQUEST_COUNT = 0
    /\ ERROR_COUNT = 0
    /\ response = NoTrainResponse

NextTrain ==
    \/ CheckPath
    \/ GlobCsvs
    \/ ReadCsvs
    \/ CallTrainModel

SpecTrain == InitTrain /\ [][NextTrain]_vars

----------------------------------------------------------------------------
(* scripts/test_endpoint.py: test_endpoint, one step per loop header, request
   and sleep *)

MaxRetries == 3

\* what requests.post does: it returns a response or raises
HttpResponse(status, body) == [kind |-> "response", status |-> status, body |-> body]
PostRaises(exc) == [kind |-> exc, status |-> 0, body |-> ""]

\* body: "container" is JSON for a list or a dict, "scalar" JSON for anything
\* else, "text" not JSON
Outcomes == {HttpResponse(200, "container"), HttpResponse(200, "scalar"),
             HttpResponse(200, "text"), HttpResponse(503, "text"),
             HttpResponse(500, "text"), HttpResponse(404, "container"),
             PostRaises("Timeout"), PostRaises("ConnectionError"),
             PostRaises("MissingSchema")}

NoEndpointCall == [op |-> "none", attempt |-> 0, posts |-> <<>>, returned |-> "pending",
                   wait_time |-> 0, slept |-> 0]

\* line 42 with range(0, retries + 1)
has_next_from_zero(attempt, retries) == attempt <= retries

\* line 42: range(1, retries + 1) yields a value after attempt
has_next(attempt, retries) == attempt + 1 <= retries

\* lines 68, 83 and 90 with the comparison replaced by False
retry_never(attempt, retries) == FALSE

\* lines 68, 83 and 90
retry_allowed(attempt, retries) == attempt < retries

\* lines 31-40
EnterTestEndpoint ==
    /\ pc = "te_call"
    /\ pc' = "te_loop"
    /\ response' = [NoEndpointCall EXCEPT !.op = "test_endpoint"]
    /\ UNCHANGED <<args, fs, log, exit_code, error, MODEL, INIT_TIME, REQUEST_COUNT,
                   ERROR_COUNT, registry, drift_vars>>

\* line 42 and, when the range is exhausted, lines 100-101
NextAttempt ==
    /\ pc = "te_loop"
    /\ IF has_next(response.attempt, args.retries)
       THEN /\ response' = [response EXCEPT !.attempt = @ + 1]
            /\ log' = Append(log, "Testing endpoint")
            /\ pc' = "te_post"
       ELSE /\ response' = [response EXCEPT !.returned = "False"]
            /\ log' = Append(log, "All retry attempts exhausted")
            /\ pc' = "returned"
    /\ UNCHANGED <<args, fs, exit_code, error, MODEL, INIT_TIME, REQUEST_COUNT,
                   ERROR_COUNT, registry, drift_vars>>

\* lines 53-98: what the loop body does with the outcome o of the request;
\* next is where control goes and wait the argument of time.sleep
handle(o, attempt, retries) ==
    IF o.kind = "response"
    THEN IF o.status = 200
         THEN IF o.body = "text"
              THEN [next |-> "returned", returned |-> "False", wait |-> 0,
                    printed |-> "Test failed with exception"]
              ELSE [next |-> "returned", returned |-> "True", wait |-> 0,
                    printed |-> IF o.body = "container"
                                THEN "Response structure is valid"
                                ELSE "Warning: Unexpected response structure"]
         ELSE IF o.status = 503
         THEN IF retry_allowed(attempt, retries)
              THEN [next |-> "te_sleep", returned |-> "pending", wait |-> attempt * 5,
                    printed |-> "Service unavailable (503)"]
              ELSE [next |-> "returned", returned |-> "False", wait |-> 0,
                    printed |-> "Test failed - Service remained unavailable"]
         ELSE [next |-> "returned", returned |-> "False", wait |-> 0,
               printed |-> "Test failed - Status"]
    ELSE IF o.kind = "Timeout"
    THEN IF retry_allowed(attempt, retries)
         THEN [next |-> "te_loop", returned |-> "pending", wait |-> 0,
               printed |-> "Request timeout"]
         ELSE [next |-> "returned", returned |-> "False", wait |-> 0,
               printed |-> "Request timeout"]
    ELSE IF o.kind = "ConnectionError"
    THEN IF retry_allowed(attempt, retries)
         THEN [next |-> "te_sleep", returned |-> "pending", wait |-> 2,
               printed |-> "Connection error"]
         ELSE [next |-> "returned", returned |-> "False", wait |-> 0,
               printed |-> "Connection error"]
    ELSE [next |-> "returned", returned |-> "False", wait |-> 0,
          printed |-> "Test failed with exception"]

\* lines 43-98: one request and the handling of its outcome
Post ==
    /\ pc = "te_post"
    /\ \E o \in Outcomes :
          LET h == handle(o, response.attempt, args.retries)
          IN  /\ response' = [response EXCEPT !.posts = Append(@, o),
                                              !.returned = h.returned,
                                              !.wait_time = h.wait]
              /\ log' = Append(log, h.printed)
              /\ pc' = h.next
    /\ UNCHANGED <<args, fs, exit_code, error, MODEL, INIT_TIME, REQUEST_COUNT,
                   ERROR_COUNT, registry, drift_vars>>

\* lines 71-72 and 92-93: time.sleep returns, then continue
Sleep ==
    /\ pc = "te_sleep"
    /\ pc' = "te_loop"
    /\ response' = [response EXCEPT !.slept = @ + response.wait_time, !.wait_time = 0]
    /\ UNCHANGED <<args, fs, log, exit_code, error, MODEL, INIT_TIME, REQUEST_COUNT,
                   ERROR_COUNT, registry, drift_vars>>

InitEndpoint ==
    /\ pc = "te_call"
    /\ args \in [valid : {TRUE}, retries : (0 - 1)..MaxRetries, timeout : {30}]
    /\ fs = [path |-> Absent, calls |-> <<>>, out |-> NoOutput]
    /\ log = <<>>
    /\ exit_code = NoExit
    /\ error = ""
    /\ baseline_df = EmptyFrame
    /\ production_df = EmptyFrame
    /\ features = <<>>
    /\ ks_results = <<>>
    /\ psi_results = <<>>
    /\ should_retrain_flag = FALSE
    /\ retrain_reason = NoDriftReason
    /\ report = NoReport
    /\ registry = NoRegistry
    /\ MODEL = PyNone
    /\ INIT_TIME = "None"
    /\ REQUEST_COUNT = 0
    /\ ERROR_COUNT = 0
    /\ response = NoEndpointCall

NextEndpoint ==
    \/ EnterTestEndpoint
    \/ NextAttempt
    \/ Post
    \/ Sleep

SpecEndpoint == InitEndpoint /\ [][NextEndpoint]_vars

\* test_endpoint runs in one thread and each call it makes returns:
\* requests.post within its timeout, time.sleep after its finite argument
SpecEndpointFair == SpecEndpoint /\ WF_vars(NextEndpoint)

----------------------------------------------------------------------------
(* src/__init_.py: the HTTP-triggered function that dispatches the GitHub
   workflow *)

\* a request body: t is "invalid" for a body that is not JSON, else the type
\* of the JSON value; items the elements of a list; data the type of the value
\* under the key "data" of a dict ("absent" without the key); name the model
\* name found in it ("" when there is none)
JV(t, items, data, name) == [t |-> t, items |-> items, data |-> data, name |-> name]

Scalar(t) == JV(t, <<>>, "absent", "")
Event(data, name) == JV("dict", <<>>, data, name)

Events == {Event("absent", ""), Event("dict", ""), Event("dict", "diabetes"),
           Event("null", ""), Event("str", ""), Event("list", "")}

RequestBodies ==
    {Scalar("invalid"), Scalar("null"), Scalar("num"), Scalar("str"),
     JV("list", <<>>, "absent", ""), JV("list", <<Scalar("num")>>, "absent", ""),
     JV("list", <<Event("dict", "diabetes"), Scalar("num")>>, "absent", "")}
    \cup Events \cup {JV("list", <<e>>, "absent", "") : e \in Events}

\* lines 59-62
event_of(data) == IF data.t = "list" /\ Len(data.items) > 0 THEN data.items[1] ELSE data

\* lines 65-73: the attribute lookups of line 66 raise AttributeError on a
\* value that has no get
parse_event(event, env) ==
    IF event.t # "dict" THEN Raise("AttributeError")
    ELSE IF event.data \notin {"absent", "dict"} THEN Raise("AttributeError")
    ELSE Return([model_name |-> IF event.name # "" THEN event.name
                                ELSE IF env.default_model_name \in {"None"}
                                     THEN "best-model" ELSE env.default_model_name,
                 model_version |-> "1"])

\* not token, of a value of os.getenv
unset_or_empty(v) == v \in {"None", ""}

\* what requests.post of line 44 does
DispatchOutcomes == {HttpResponse(204, ""), HttpResponse(201, ""),
                     HttpResponse(200, "text"), HttpResponse(404, "text"),
                     HttpResponse(401, "text"), HttpResponse(422, "text"),
                     PostRaises("ConnectionError")}

\* lines 17-49; o is what requests.post does when it is called
trigger_workflow(inputs, env, o) ==
    IF unset_or_empty(env.GITHUB_TOKEN) \/ unset_or_empty(env.REPO_OWNER)
           \/ unset_or_empty(env.REPO_NAME)
    THEN [result |-> Return([success |-> FALSE, message |-> "Missing configuration"]),
          posts |-> <<>>, logged |-> <<"GITHUB_TOKEN, REPO_OWNER and REPO_NAME must be set">>]
    ELSE IF o.kind # "response"
    THEN [result |-> Raise(o.kind), posts |-> <<o>>, logged |-> <<>>]
    ELSE IF o.status \in {204, 201}
    THEN [result |-> Return([success |-> TRUE, message |-> "Workflow dispatched"]),
          posts |-> <<o>>, logged |-> <<>>]
    ELSE [result |-> Return([success |-> FALSE, message |-> o.body]),
          posts |-> <<o>>, logged |-> <<"Failed to dispatch workflow">>]

\* func.HttpResponse(body, status_code=...)
FuncHttpResponse(text, status_code) ==
    [op |-> "main", raised |-> FALSE, exc |-> "", status_code |-> status_code,
     text |-> text, posts |-> <<>>]

\* lines 51-79
main_function(req, env, o) ==
    LET received == <<"Azure Function received a request">>
    IN  IF req.t = "invalid"
        THEN [response |-> FuncHttpResponse("Invalid JSON", 400), logged |-> received]
        ELSE LET p == parse_event(event_of(req), env)
             IN  IF p.raised
                 THEN [response |-> FuncHttpResponse("Bad event payload", 400),
                       logged |-> Append(received, "Failed to parse event")]
                 ELSE LET t == trigger_workflow(p.value, env, o)
                      IN  [response |->
                               IF t.result.raised
                               THEN [FuncHttpResponse("", 0) EXCEPT !.raised = TRUE,
                                        !.exc = t.result.exc, !.posts = t.posts]
                               ELSE IF t.result.value.success
                               THEN [FuncHttpResponse(t.result.value.message, 202)
                                        EXCEPT !.posts = t.posts]
                               ELSE [FuncHttpResponse(t.result.value.message, 500)
                                        EXCEPT !.posts = t.posts],
                           logged |-> received \o t.logged]

CallMain ==
    /\ pc = "fn_call"
    /\ pc' = "returned"
    /\ \E o \in DispatchOutcomes :
          LET r == main_function(args.req, args.env, o)
          IN  /\ response' = r.response
              /\ log' = log \o r.logged
    /\ UNCHANGED <<args, fs, exit_code, error, MODEL, INIT_TIME, REQUEST_COUNT,
                   ERROR_COUNT, registry, drift_vars>>

EnvValues == {"None", "", "set"}

Environments == [GITHUB_TOKEN : EnvValues, REPO_OWNER : EnvValues,
                 REPO_NAME : EnvValues, default_model_name : {"None", "champion"}]

InitFunction ==
    /\ pc = "fn_call"
    /\ args \in [valid : {TRUE}, req : RequestBodies, env : Environments]
    /\ fs = [path |-> Absent, calls |-> <<>>, out |-> NoOutput]
    /\ log = <<>>
    /\ exit_code = NoExit
    /\ error = ""
    /\ baseline_df = EmptyFrame
    /\ production_df = EmptyFrame
    /\ features = <<>>
    /\ ks_results = <<>>
    /\ psi_results = <<>>
    /\ should_retrain_flag = FALSE
    /\ retrain_reason = NoDriftReason
    /\ report = NoReport
    /\ registry = NoRegistry
    /\ MODEL = PyNone
    /\ INIT_TIME = "None"
    /\ REQUEST_COUNT = 0
    /\ ERROR_COUNT = 0
    /\ response = FuncHttpResponse("", 0)

NextFunction == CallMain

SpecFunction == InitFunction /\ [][NextFunction]_vars

----------------------------------------------------------------------------
(* Properties *)

Logged(banner) == \E i \in 1..Len(log) : log[i] = banner

\* both load_data calls of the run return
LoadSucceeds ==
    /\ args.valid
    /\ ~load_data(fs.baseline).raised
    /\ ~load_data(fs.production).raised

\* the KS pass has returned, the PSI pass has returned, the decision is made
KSReturned == pc = "psi" \/ Logged("POPULATION STABILITY INDEX (PSI)")
PSIReturned == pc = "decide" \/ Logged("RETRAINING DECISION")
Decided == pc \in {"report", "save", "summary"} \/ (pc = "exited" /\ PSIReturned)

\* the process ended inside the KS pass, inside the PSI pass
KSCrashed == pc = "exited" /\ Logged("KOLMOGOROV-SMIRNOV TEST") /\ ~KSReturned
PSICrashed == pc = "exited" /\ KSReturned /\ ~PSIReturned

Requested == {features[i] : i \in 1..Len(features)}

InBoth(f) == f \in columns_of(baseline_df) /\ f \in columns_of(production_df)

HasValue(column) == \E i \in 1..Len(column) : column[i].kind # "nan"
HasText(column) == \E i \in 1..Len(column) : column[i].kind = "str"

\* requested features that are columns of both datasets with at least one
\* non-missing value in each
WithValues ==
    {f \in Requested : /\ InBoth(f)
                       /\ HasValue(baseline_df.columns[f])
                       /\ HasValue(production_df.columns[f])}

\* C1: should_retrain with the default thresholds returns true iff at least
\* 3 KS features have drift_detected and |mean_shift_percent| > 15, or at
\* least 1 PSI feature has drift_detected; otherwise it returns false with
\* the reason "No significant drift detected".
C1_RetrainRule ==
    pc = "returned" =>
        LET high == {i \in 1..Len(ks_results) :
                        /\ ks_results[i].drift_detected.value
                        /\ \/ ks_results[i].mean_shift_percent > 15000
                           \/ ks_results[i].mean_shift_percent < 0 - 15000}
            sig == {i \in 1..Len(psi_results) : psi_results[i].drift_detected.value}
        IN /\ should_retrain_flag <=> (Cardinality(high) >= 3 \/ Cardinality(sig) >= 1)
           /\ ~should_retrain_flag => retrain_reason.text = "No significant drift detected"

\* C1 witness: three high-drift KS features and no PSI drift give true
C1_Witness ==
    /\ pc = "returned"
    /\ should_retrain_flag
    /\ Len(high_drift_features_of(ks_results, DefaultHighDrift)) = 3
    /\ psi_significant_of(psi_results) = <<>>

\* C2 (as claimed): once the decision is made, a PSI entry whose value is
\* >= 0.25, 0.25 included, makes the retrain decision true.
C2_PsiAtLeastQuarterRetrains ==
    Decided =>
        ((\E i \in 1..Len(psi_results) :
            psi_results[i].psi_value # NaN /\ psi_results[i].psi_value >= 250)
         => should_retrain_flag)

\* C3 (as claimed): every PSI entry is no_drift below 0.1, moderate_drift
\* from 0.1 to below 0.25, significant_drift from 0.25, and drift_detected
\* is true exactly when drift_level is significant_drift.
C3_PsiLevels ==
    \A i \in 1..Len(psi_results) :
        LET e == psi_results[i]
            v == e.psi_value
        IN /\ (v # NaN /\ v < 100) => e.drift_level = "no_drift"
           /\ (v # NaN /\ v >= 100 /\ v < 250) => e.drift_level = "moderate_drift"
           /\ (v # NaN /\ v >= 250) => e.drift_level = "significant_drift"
           /\ e.drift_detected.value <=> e.drift_level = "significant_drift"

FullRun ==
    <<"DATA DRIFT DETECTION", "KOLMOGOROV-SMIRNOV TEST",
      "POPULATION STABILITY INDEX (PSI)", "RETRAINING DECISION",
      "Drift report saved", "SUMMARY">>

\* C4 (as claimed): a run whose two loads succeed passes through KS, PSI,
\* decision, report and file write once each, in this order, and exits
\* with the report written.
C4_LinearPipeline ==
    (pc = "exited" /\ LoadSucceeds) =>
        /\ log = FullRun
        /\ report.generated
        /\ fs.output.state = "complete"
        /\ fs.output.content = report

\* C5 (as claimed): once the arguments are parsed, the exit code is 0 exactly
\* when loading succeeded and the decision is false, 1 exactly when the
\* decision is true or a load raised, and nothing else.
C5_ExitCodes ==
    (pc = "exited" /\ args.valid) =>
        /\ exit_code \in {0, 1}
        /\ exit_code = 0 <=> (LoadSucceeds /\ Decided /\ ~should_retrain_flag)
        /\ exit_code = 1 <=> ((Decided /\ should_retrain_flag)
                              \/ (args.valid /\ ~LoadSucceeds))

\* the claim's two failures of load_data
PathFails(path) ==
    \/ path.kind \notin {"file", "dir"}
    \/ path.kind = "dir" /\ path.files = <<>>

\* C6: when load_data fails for the baseline or the production path, main
\* never gets past loading, runs no KS or PSI pass, writes no report file,
\* and exits with code 1.
C6_LoadFailureAborts ==
    (args.valid /\ (PathFails(fs.baseline) \/ PathFails(fs.production))) =>
        /\ pc \in {"start", "load", "exited"}
        /\ ~Logged("KOLMOGOROV-SMIRNOV TEST")
        /\ ~Logged("POPULATION STABILITY INDEX (PSI)")
        /\ ks_results = <<>> /\ psi_results = <<>>
        /\ ~report.generated
        /\ fs.output = NoFile
        /\ pc = "exited" => exit_code = 1

\* C6 witness: the baseline loads, the production path has no CSV file, and
\* the process has exited with 1
C6_Witness ==
    /\ pc = "exited"
    /\ exit_code = 1
    /\ ~PathFails(fs.baseline)
    /\ baseline_df.nrows > 0
    /\ fs.production.kind = "dir" /\ fs.production.files = <<>>

\* C7 (as claimed): when the KS computation of a requested feature fails
\* (its values are text), the feature is skipped, the other features are
\* evaluated and the run reaches report generation.
C7_KSFailureLocal ==
    (pc = "exited" /\ LoadSucceeds
        /\ \E f \in WithValues : HasText(baseline_df.columns[f]) \/ HasText(production_df.columns[f]))
    => /\ report.generated
       /\ keys(ks_results) =
            {f \in WithValues : ~HasText(baseline_df.columns[f]) /\ ~HasText(production_df.columns[f])}

\* C8: detect_drift_psi never raises; a requested feature of both datasets
\* has an entry exactly when calculate_psi did not raise for it.
C8_PsiFailureCaught ==
    /\ ~PSICrashed
    /\ PSIReturned =>
         keys(psi_results) =
            {f \in Requested : InBoth(f)
                               /\ ~calculate_psi(baseline_df, production_df, f, 0).raised}

\* C8 witness: calculate_psi raised for one requested feature and another
\* feature has its PSI entry
C8_Witness ==
    /\ pc = "decide"
    /\ \E f \in Requested : InBoth(f) /\ calculate_psi(baseline_df, production_df, f, 0).raised
    /\ psi_results # <<>>

\* C9: when detect_drift_ks_test returns, its entries are exactly the
\* requested features that are columns of both datasets with a non-missing
\* value in each; an absent or empty feature never ends the loop (the pass
\* fails only on a feature that has values).
C9_KSEntries ==
    /\ KSReturned => keys(ks_results) = WithValues
    /\ KSCrashed => \E f \in WithValues :
                       HasText(baseline_df.columns[f]) \/ HasText(production_df.columns[f])

\* C9 witness: the pass returned an entry for a feature listed after one it
\* skipped as absent or without values
C9_Witness ==
    /\ pc = "psi"
    /\ \E i, j \in 1..Len(features) :
          /\ i < j
          /\ features[i] \notin WithValues
          /\ features[j] \in keys(ks_results)

\* C10 (as claimed): a feature missing from either dataset or with only
\* missing values in either dataset has no PSI entry, so every feature of
\* psi_results is in ks_results.
C10_PsiSkipsLikeKS ==
    PSIReturned =>
        /\ keys(psi_results) \subseteq WithValues
        /\ keys(psi_results) \subseteq keys(ks_results)

----------------------------------------------------------------------------
\* the drifted entries of the KS result set
KsDrifted == {i \in 1..Len(ks_results) : ks_results[i].drift_detected.value}

\* C11: in every KS entry drift_detected is true exactly when the p-value
\* is strictly below the threshold; a p-value equal to the threshold gives
\* false.
C11_KSDriftStrict ==
    \A i \in 1..Len(ks_results) :
        /\ ks_results[i].drift_detected.value <=> ks_results[i].p_value < args.threshold
        /\ ks_results[i].p_value = args.threshold => ~ks_results[i].drift_detected.value

\* the KS pass has returned an entry whose p-value equals the threshold
C11_Witness ==
    /\ KSReturned
    /\ \E i \in 1..Len(ks_results) :
           /\ ks_results[i].p_value = args.threshold
           /\ ~ks_results[i].drift_detected.value

\* C12: mean_shift_percent is 0 whenever the baseline mean is 0, and
\* otherwise (production_mean - baseline_mean) / baseline_mean * 100.
C12_MeanShift ==
    \A i \in 1..Len(ks_results) :
        LET e == ks_results[i]
        IN IF e.baseline_mean = 0
           THEN e.mean_shift_percent = 0
           ELSE e.mean_shift_percent =
                    ((e.production_mean - e.baseline_mean) * 100 * Scale) \div e.baseline_mean

\* an entry whose baseline mean is 0 while the production mean is not, next
\* to one whose shift is negative
C12_Witness ==
    /\ pc = "psi"
    /\ \E i, j \in 1..Len(ks_results) :
           /\ ks_results[i].baseline_mean = 0
           /\ ks_results[i].production_mean # 0
           /\ ks_results[i].mean_shift_percent = 0
           /\ ks_results[j].baseline_mean # 0
           /\ ks_results[j].mean_shift_percent < 0

\* the names the reason lists
Named == {retrain_reason.features[i] : i \in 1..Len(retrain_reason.features)}

\* C13: when should_retrain returns true, the reason names every feature of
\* high_drift_features if the KS count rule is satisfied and every feature
\* of psi_significant if the PSI rule is satisfied, also when both are.
C13_ReasonNamesTriggers ==
    pc = "returned" /\ should_retrain_flag =>
        LET high == high_drift_features_of(ks_results, DefaultHighDrift)
            significant == psi_significant_of(psi_results)
        IN /\ Len(high) >= DefaultMinDrifted =>
                  \A i \in 1..Len(high) : high[i] \in Named
           /\ Len(significant) > 0 =>
                  \A i \in 1..Len(significant) : significant[i] \in Named

\* C14: drift_percentage is 0 when ks_results is empty, otherwise
\* features_with_drift / total_features_analyzed * 100, both counts taken
\* over ks_results only.
C14_DriftPercentage ==
    report.generated =>
        LET total == Len(ks_results)
            drifted == Cardinality(KsDrifted)
        IN /\ report.summary.total_features_analyzed = total
           /\ report.summary.features_with_drift = drifted
           /\ report.summary.drift_percentage =
                  IF total = 0 THEN 0 ELSE (drifted * 100 * Scale) \div total

\* a report over an empty KS result set and a PSI result set that is not
C14_Witness ==
    /\ report.generated
    /\ ks_results = <<>>
    /\ psi_results # <<>>
    /\ report.summary.drift_percentage = 0

\* C15: the recommendations depend only on the retrain decision and the
\* number of drifted KS features: the first entry is the RETRAIN message
\* exactly when the decision is true and the no-retraining message
\* otherwise, a second "Monitor N features" entry exists exactly when the
\* number is greater than 0, and the list has one or two entries.
C15_Recommendations ==
    report.generated =>
        LET recs == report.recommendations
            drifted == Cardinality(KsDrifted)
        IN /\ Len(recs) \in {1, 2}
           /\ recs[1].text = IF should_retrain_flag
                             THEN "RETRAIN MODEL - Significant drift detected"
                             ELSE "No retraining needed - Model is stable"
           /\ Len(recs) = 2 <=> drifted > 0
           /\ Len(recs) = 2 =>
                  recs[2] = [text |-> "Monitor features showing drift", count |-> drifted]

\* a report that recommends retraining (by the PSI rule) and has no
\* monitoring entry, because no KS entry drifted
C15_Witness ==
    /\ report.generated
    /\ should_retrain_flag
    /\ ks_results # <<>>
    /\ KsDrifted = {}
    /\ Len(report.recommendations) = 1

\* C16: without --features the analysed set is exactly the numeric columns
\* common to both datasets minus those whose lower-cased name is id,
\* timestamp or index; with --features it is exactly the supplied list.
C16_AnalysedFeatures ==
    pc = "ks" =>
        IF args.features = <<>>
        THEN /\ Requested =
                   {c \in columns_of(baseline_df) \cap columns_of(production_df) :
                       /\ is_numeric(baseline_df.columns[c])
                       /\ is_numeric(production_df.columns[c])
                       /\ lower(c) \notin {"id", "timestamp", "index"}}
             /\ Len(features) = Cardinality(Requested)
        ELSE features = args.features

\* no --features; ID, index and TimeStamp are numeric columns of both
\* frames and are left out, age is analysed, bmi (text in the baseline) not
C16_Witness ==
    /\ pc = "ks"
    /\ args.features = <<>>
    /\ {"ID", "index", "TimeStamp", "age", "bmi"} \subseteq columns_of(baseline_df)
    /\ {"ID", "index", "TimeStamp", "age", "bmi"} \subseteq columns_of(production_df)
    /\ is_numeric(baseline_df.columns["ID"])
    /\ is_numeric(baseline_df.columns["index"])
    /\ is_numeric(baseline_df.columns["TimeStamp"])
    /\ ~is_numeric(baseline_df.columns["bmi"])
    /\ features = <<"age">>

\* C17: every report generate_drift_report produces is written by
\* json.dump and read back with the same scalar values.
C17_ReportRoundTrip ==
    report.generated /\ pc \in {"summary", "exited"} /\ error # "OSError" =>
        fs.output = [state |-> "complete", content |-> report]

\* the candidate main() reads, and what it compares
MetricsFound == find_metrics_file(fs.metrics) # 0
MetricsRead == new_val_of(fs.metrics[find_metrics_file(fs.metrics)], args.primary_metric)

\* C18: compare_metrics.main writes improved.txt, containing "true" or
\* "false", before every return: it returns 2 with "false" when metrics.json
\* is in neither location (whatever the workspace identifiers), 3 with
\* "false" when an identifier is missing, and 0 with the outcome of the
\* comparison otherwise.  A run that ends without a return is a usage error
\* or an exception raised while metrics.json is read.
C18_ImprovedWritten ==
    /\ pc = "cm_returned" =>
          /\ fs.improved \in {"true", "false"}
          /\ IF ~MetricsFound
             THEN exit_code = 2 /\ fs.improved = "false"
             ELSE IF ~identifiers_given(args)
             THEN exit_code = 3 /\ fs.improved = "false"
             ELSE /\ exit_code = 0
                  /\ LET best == get_best_existing_metric(registry, args.model_name,
                                                          args.primary_metric)
                         new == MetricsRead.value
                     IN fs.improved = "true" <=>
                            (~best.some \/ (new.some /\ new.v > best.v))
    /\ pc = "cm_exited" => ~args.valid \/ (MetricsFound /\ MetricsRead.raised)

\* main returned 2 over an improved.txt that may have said "true", with no
\* metrics.json and with a workspace identifier missing as well
C18_Witness ==
    /\ pc = "cm_returned"
    /\ exit_code = 2
    /\ ~identifiers_given(args)
    /\ fs.improved = "false"

\* C19: health returns 200 "healthy" exactly when MODEL is loaded and 503
\* "unhealthy" otherwise; in particular 503 before init() has run and after
\* an init() that raised because no model file was found.
C19_HealthFollowsModel ==
    response.op = "health" =>
        /\ IF MODEL # PyNone
           THEN response.code = 200 /\ response.status = "healthy"
           ELSE response.code = 503 /\ response.status = "unhealthy"
        /\ pc = "imported" => response.code = 503
        /\ error = "FileNotFoundError" => response.code = 503

\* health answered 503 after init() found no model file
C19_Witness ==
    /\ response.op = "health"
    /\ pc = "initialized"
    /\ error = "FileNotFoundError"
    /\ response.code = 503
    /\ response.status = "unhealthy"

\* C20: run returns, for any request body, a dict with a metadata entry
\* that holds a request_id, and the dict has an "error" key exactly when
\* processing failed, that is, when it holds neither predictions nor
\* probabilities; before a model is loaded the result is such an error dict
\* and MODEL stays None.
C20_RunErrorIffFailed ==
    response.op = "run" =>
        /\ "metadata" \in response.keys
        /\ response.request_id >= 0
        /\ "error" \in response.keys <=>
               response.keys \cap {"predictions", "probabilities"} = {}
        /\ MODEL = PyNone => "error" \in response.keys

\* C30: in every report 0 <= features_with_drift <= total_features_analyzed
\* and 0 <= drift_percentage <= 100, and should_retrain and retrain_reason
\* of the summary are the pair should_retrain returns for the KS and PSI
\* results of the report.
C30_ReportConsistent ==
    report.generated =>
        LET s == report.summary
            d == should_retrain(report.ks_test_results, report.psi_results,
                                DefaultMinDrifted, DefaultHighDrift)
        IN /\ 0 <= s.features_with_drift
           /\ s.features_with_drift <= s.total_features_analyzed
           /\ 0 <= s.drift_percentage
           /\ s.drift_percentage <= 100 * Scale
           /\ s.should_retrain = d.flag
           /\ s.retrain_reason = d.reason

\* a report with one of two features drifted (50 %) whose decision is true
C30_Witness ==
    /\ report.generated
    /\ report.summary.total_features_analyzed = 2
    /\ report.summary.features_with_drift = 1
    /\ report.summary.drift_percentage = 50 * Scale
    /\ report.summary.should_retrain

\* the requests run() has logged, and those it logged as failed
RunsLogged == {i \in 1..Len(log) : log[i] \in {"Request completed", "Request failed"}}
RunsFailed == {i \in 1..Len(log) : log[i] = "Request failed"}

\* C25: after any sequence of run calls REQUEST_COUNT is the number of
\* calls and ERROR_COUNT the number of calls that returned an error result,
\* so 0 <= ERROR_COUNT <= REQUEST_COUNT; health, readiness and liveness
\* leave both counters and MODEL unchanged.
C25_Counters ==
    /\ [](/\ REQUEST_COUNT = Cardinality(RunsLogged)
          /\ ERROR_COUNT = Cardinality(RunsFailed)
          /\ 0 <= ERROR_COUNT
          /\ ERROR_COUNT <= REQUEST_COUNT
          /\ response.op = "run" =>
                 ("error" \in response.keys <=> log[Len(log)] = "Request failed"))
    /\ [][response'.op \in {"health", "readiness", "liveness"} =>
              UNCHANGED <<REQUEST_COUNT, ERROR_COUNT, MODEL>>]_vars

\* a probe answered after two requests of which one failed
C25_Witness ==
    /\ response.op \in {"health", "readiness", "liveness"}
    /\ REQUEST_COUNT = 2
    /\ ERROR_COUNT = 1

\* C26: when main returns 0, improved is true if the registry holds no
\* existing best metric (even without a new value), false if there is one
\* and the new value is missing or unparseable, and otherwise true exactly
\* when the new value is strictly greater than the existing best.
C26_ImprovedRule ==
    pc = "cm_returned" /\ exit_code = 0 =>
        LET best == get_best_existing_metric(registry, args.model_name, args.primary_metric)
            new == MetricsRead.value
        IN /\ ~best.some => fs.improved = "true"
           /\ best.some /\ ~new.some => fs.improved = "false"
           /\ best.some /\ new.some =>
                  /\ fs.improved = "true" <=> new.v > best.v
                  /\ new.v = best.v => fs.improved = "false"

\* the new value equals the existing best and improved.txt says false
C26_Witness ==
    /\ pc = "cm_returned"
    /\ exit_code = 0
    /\ MetricsRead.value.some
    /\ get_best_existing_metric(registry, args.model_name, args.primary_metric)
           = MetricsRead.value
    /\ fs.improved = "false"

\* the value of one version: from its tags, from its properties only if
\* the tags give no parseable value
VersionValue(m) ==
    LET from_tags == parse_float(tag_value(m.tags, args.primary_metric))
    IN IF from_tags.some THEN from_tags
       ELSE parse_float(property_value(m.properties, args.primary_metric))

\* the values of the listed versions of the model that can be read
ReadableValues ==
    {VersionValue(registry.models[i]).v :
        i \in {j \in 1..Len(registry.models) :
                   /\ ~registry.models[j].raises
                   /\ name_lower(registry.models[j].name) = name_lower(args.model_name)
                   /\ VersionValue(registry.models[j]).some}}

\* C27: get_best_existing_metric returns the maximum of the values of the
\* listed versions named model_name (case-insensitively), a version's value
\* coming from its tags and from its properties only when the tags give no
\* parseable value; None if no version has a value; a version that raises
\* does not stop the scan of the others.
C27_BestIsMaximum ==
    pc = "returned" /\ response.op = "get_best_existing_metric" /\ ~registry.list_raises =>
        IF ReadableValues = {}
        THEN response.value = NoFloat
        ELSE /\ response.value.some
             /\ response.value.v \in ReadableValues
             /\ \A v \in ReadableValues : v <= response.value.v

\* a payload whose array has more than 2 dimensions or more than 100,000
\* elements, as a raw list or under one of the input keys of a dict
Oversized(body) ==
    /\ body.ndim > 2 \/ body.large
    /\ \/ body.type = "list"
       \/ body.type = "dict" /\ body.key \in InputKeys

\* C28: for every such payload run returns an error result and invokes no
\* model prediction.
C28_OversizedRejected ==
    response.op = "run" /\ Oversized(response.request) =>
        /\ "error" \in response.keys
        /\ response.calls = 0

\* C21: get_csvs_df raises RuntimeError "Cannot use non-existent path provided"
\* for a path that does not exist and RuntimeError "No CSV files found in
\* provided data path" for a path that exists and holds no *.csv file; the
\* CSV search is never made without the existence check before it, not at all
\* for a path that does not exist, and neither case returns a dataframe.
C21_GetCsvsErrors ==
    /\ \A i \in 1..Len(fs.calls) :
          fs.calls[i] = "glob.glob" =>
              /\ \E j \in 1..(i - 1) : fs.calls[j] = "os.path.exists"
              /\ fs.path.kind # "absent"
    /\ response.op = "get_csvs_df" =>
          /\ fs.path.kind = "absent" =>
                /\ response.result = Raise(NonExistentPath)
                /\ fs.calls = <<"os.path.exists">>
          /\ (fs.path.kind # "absent" /\ \A f \in fs.path.files : ~glob_match(f)) =>
                response.result = Raise(NoCsvFound)

C21_Witness ==
    /\ response.op = "get_csvs_df"
    /\ response.result = Raise(NoCsvFound)
    /\ fs.path.kind = "dir"
    /\ fs.path.files # {}
    /\ fs.calls = <<"os.path.exists", "glob.glob">>

\* C22: train_model called with the regularisation rate and the four splits
\* and no output directory returns without raising, having logged accuracy,
\* precision, recall and f1 through mlflow.log_metric, each with a value
\* between 0 and 1.
C22_TrainModelLogsMetrics ==
    (response.op = "train_model" /\ args.output_dir = NotPassed
        /\ args.reg_rate > 0 /\ args.train_classes = 2) =>
        /\ ~response.result.raised
        /\ \A i \in 1..Len(MetricNames) :
              \E j \in 1..Len(response.logged) :
                  /\ response.logged[j].name = MetricNames[i]
                  /\ 0 <= response.logged[j].value
                  /\ response.logged[j].value <= Scale

Retryable(o) == o.kind \in {"Timeout", "ConnectionError"}
                    \/ (o.kind = "response" /\ o.status = 503)

\* C23: test_endpoint issues at most retries POST requests and always
\* returns; it returns True only when the last request it issued was answered
\* with status 200 and a body that decodes as JSON; with retries <= 0 it
\* issues no request and returns False.
C23_BoundedRequests ==
    /\ [](/\ Len(response.posts) <= (IF args.retries > 0 THEN args.retries ELSE 0)
          /\ response.returned = "True" =>
                /\ response.posts # <<>>
                /\ response.posts[Len(response.posts)].kind = "response"
                /\ response.posts[Len(response.posts)].status = 200
                /\ response.posts[Len(response.posts)].body # "text"
          /\ (args.retries <= 0 /\ pc = "returned") =>
                (response.posts = <<>> /\ response.returned = "False"))
    /\ <>(pc = "returned" /\ response.returned \in {"True", "False"})

C23_Witness ==
    /\ pc = "returned"
    /\ args.retries = 2
    /\ Len(response.posts) = 2
    /\ response.returned = "True"

\* C24: in test_endpoint a 503 response, a timeout or a connection error on
\* attempt k < retries is always followed by attempt k + 1, and on attempt
\* k = retries the function returns False; any other status than 200 and any
\* other exception makes it return False at once, with no request after it.
C24_RetryOrFail ==
    /\ \A k \in 1..MaxRetries :
          (/\ Len(response.posts) = k
           /\ k < args.retries
           /\ Retryable(response.posts[k]))
          ~> (response.attempt = k + 1 /\ Len(response.posts) = k + 1)
    /\ [](\A k \in 1..Len(response.posts) :
             LET o == response.posts[k]
             IN  /\ (Retryable(o) /\ k < args.retries /\ k = Len(response.posts)) =>
                       (pc # "returned" /\ response.returned = "pending")
                 /\ (Retryable(o) /\ k >= args.retries) =>
                       (pc = "returned" /\ response.returned = "False"
                        /\ k = Len(response.posts))
                 /\ (~Retryable(o) /\ ~(o.kind = "response" /\ o.status = 200
                                        /\ o.body # "text")) =>
                       (pc = "returned" /\ response.returned = "False"
                        /\ k = Len(response.posts)))

C24_Witness ==
    /\ pc = "returned"
    /\ args.retries = 3
    /\ Len(response.posts) = 3
    /\ response.posts[1].status = 503
    /\ response.posts[2].kind = "Timeout"
    /\ response.posts[3].kind = "ConnectionError"
    /\ response.returned = "False"

\* the event of the request is a JSON object whose fields can be read
ReadableEvent(req) ==
    /\ req.t # "invalid"
    /\ event_of(req).t = "dict"
    /\ event_of(req).data \in {"absent", "dict"}

ConfigurationSet(env) ==
    env.GITHUB_TOKEN # "None" /\ env.REPO_OWNER # "None" /\ env.REPO_NAME # "None"

\* C29: main returns 400 when the body is not valid JSON or the event is not
\* an object with readable fields; otherwise it returns 202 exactly when the
\* dispatch request was answered with 201 or 204 and 500 in every other case;
\* without GITHUB_TOKEN, REPO_OWNER or REPO_NAME it returns 500 and sends no
\* request; it never sends more than one dispatch request.
C29_StatusCodes ==
    (pc = "returned" /\ response.op = "main") =>
        /\ ~response.raised
        /\ Len(response.posts) <= 1
        /\ ~ReadableEvent(args.req) => response.status_code = 400
        /\ ReadableEvent(args.req) =>
              /\ response.status_code \in {202, 500}
              /\ response.status_code = 202 <=>
                    (/\ response.posts # <<>>
                     /\ response.posts[1].kind = "response"
                     /\ response.posts[1].status \in {201, 204})
              /\ ~ConfigurationSet(args.env) =>
                    (response.status_code = 500 /\ response.posts = <<>>)

============================================================================
